---------------------------- MODULE Spec2Model ----------------------------
(***************************************************************************)
(* Model of opmon's configuration engine (src/opmon/config.py): layered    *)
(* MonitoringSpec objects, their merge and resolve operations, the         *)
(* construction-time validation of AlertDefinition, the date and           *)
(* population fallbacks of ProjectSpec.resolve and PopulationSpec.resolve  *)
(* and MetricDefinition.resolve; of the per-project loop of the `run`      *)
(* command (src/opmon/cli.py); of Monitoring._check_runnable, run and      *)
(* _get_metrics_sql (src/opmon/monitoring.py); of retry_get                *)
(* (src/opmon/utils.py); and of BigQueryClient.execute                     *)
(* (src/opmon/bigquery_client.py).                                         *)
(*                                                                         *)
(* Encoding of Python values                                               *)
(*   Optional[T] : None is <<>>, a value v is <<v>>  (so None and an empty *)
(*                 list, <<>> and << <<>> >>, stay distinct);              *)
(*   str         : a TLA+ string, "" is the empty (falsy) string;          *)
(*   List[T]     : a sequence;   Dict[str, T] : a function on its keys;    *)
(*   datetime    : [date |-> "YYYY-MM-DD", secs |-> seconds into the day]. *)
(* AlertDefinition objects are mutated in place by AlertsSpec.merge and    *)
(* shared by reference between specs, so they live in a heap and the       *)
(* alerts tables hold object ids.  All other definitions are never         *)
(* mutated after construction and are held by value.                       *)
(***************************************************************************)
EXTENDS Integers, Sequences, FiniteSets, TLC

VARIABLES
    specs,      \* spec id -> MonitoringSpec (the target and the layers merged into it)
    heap,       \* object id -> AlertDefinition
    docOf,      \* spec id -> index of the document the spec was built from
    last,       \* the last operation performed and its argument
    merged,     \* the arguments of the merge calls made on the target, in order
    nResolves,  \* number of resolve calls made on the target
    outcome,    \* what each resolve call on the target returned or raised, in order
    alertIn,    \* keyword arguments of an AlertDefinition under construction
    alertOut,   \* result of that construction
    projIn,     \* a ProjectSpec handed to ProjectSpec.resolve
    projExp,    \* the experiment handed to ProjectSpec.resolve
    projOut,    \* the ProjectConfiguration (or error) it produced
    metricIn,   \* a MetricDefinition and the data_sources table of the spec it resolves against
    metricOut,  \* the Summary list (or error) MetricDefinition.resolve produced
    runnableIn, \* the project of a Monitoring's configuration and a current_date
    runnableOut,\* what Monitoring._check_runnable returned or raised
    pc,         \* the position of the `run` command, or of each project's task
    configs,    \* the (slug, MonitoringConfiguration) pairs collected so far
    frame,      \* the arguments and locals of a call that talks to a remote service
    remote      \* what that service has received: requests, queries, tables

vars == <<specs, heap, docOf, last, merged, nResolves, outcome,
          alertIn, alertOut, projIn, projExp, projOut,
          metricIn, metricOut, runnableIn, runnableOut, pc, configs,
          frame, remote>>

mainVars  == <<specs, heap, docOf, last, merged, nResolves, outcome>>
alertVars == <<alertIn, alertOut>>
projVars  == <<projIn, projExp, projOut>>
callVars  == <<metricIn, metricOut, runnableIn, runnableOut>>
runVars   == <<pc, configs>>
ioVars    == <<frame, remote>>

----------------------------------------------------------------------------
(* Python values *)

None == <<>>
Some(v) == <<v>>

\* `a or b` for Optional values whose type has the falsy value `falsy`
\* ("" for str, <<>> for lists, 0 for numbers).
PyOr(a, b, falsy) == IF a # None /\ a[1] # falsy THEN a ELSE b

\* `a or b` for Optional objects that are always truthy when present
\* (enum members, attrs instances).
PyOrObj(a, b) == IF a # None THEN a ELSE b

\* bool(x) of an Optional list.
TruthyList(a) == a # None /\ a[1] # <<>>

\* A dict merge in which the keys already present keep their value.
DictSetDefault(a, b) ==
    [k \in (DOMAIN a) \cup (DOMAIN b) |-> IF k \in DOMAIN a THEN a[k] ELSE b[k]]

\* dict.update
DictUpdate(a, b) ==
    [k \in (DOMAIN a) \cup (DOMAIN b) |-> IF k \in DOMAIN b THEN b[k] ELSE a[k]]

EmptyDict == [k \in {} |-> k]

\* The dict holding the named definitions of S.
DictOf(S) == [n \in {d.name : d \in S} |-> CHOOSE d \in S : d.name = n]

Range(s) == {s[i] : i \in 1..Len(s)}

RECURSIVE Flatten(_)
Flatten(ss) == IF ss = <<>> THEN <<>> ELSE Head(ss) \o Flatten(Tail(ss))

\* Every order in which a Python set may be iterated.
RECURSIVE Orderings(_)
Orderings(S) ==
    IF S = {} THEN {<<>>}
    ELSE UNION {{<<x>> \o o : o \in Orderings(S \ {x})} : x \in S}

\* Results of fallible operations.
Ok(v)        == [ok |-> TRUE, err |-> [msg |-> "", name |-> ""], val |-> v]
Raise(m, n)  == [ok |-> FALSE, err |-> [msg |-> m, name |-> n], val |-> <<>>]

\* The Python exception class of each error the engine raises.
ExcClass(msg) == IF msg = "ResolveTwice" THEN "Exception" ELSE "ValueError"

----------------------------------------------------------------------------
(* Definitions, as from_dict builds them *)

\* Names of the Statistic subclasses (Statistic.name() of Count, Sum, Mean,
\* Quantile, Percentile).
KnownStatistics == {"count", "sum", "mean", "quantile", "percentile"}

AlertTypes == {"ci_overlap", "threshold", "avg_diff"}

DataSourceDefinition(name, from_expression) ==
    [name |-> name, from_expression |-> from_expression,
     submission_date_column |-> "submission_date",
     build_id_column |-> "SAFE.SUBSTR(application.build_id, 0, 8)",
     client_id_column |-> "client_id"]

\* statistics is the Optional ordered mapping's key sequence; the default is
\* {"percentile": {}}.
MetricDefinition(name, select_expression, data_source, statistics) ==
    [name |-> name, select_expression |-> select_expression,
     data_source |-> data_source, friendly_name |-> None, description |-> None,
     category |-> None, type |-> Some("scalar"), statistics |-> statistics]

DimensionDefinition(name, select_expression, data_source) ==
    [name |-> name, select_expression |-> select_expression,
     data_source |-> data_source, friendly_name |-> None, description |-> None]

\* metrics is a list of MetricReference, each held as its name (attrs
\* equality of references is equality of names).
AlertDefinition(name, type, metrics) ==
    [name |-> name, type |-> type, metrics |-> metrics,
     friendly_name |-> None, description |-> None, parameters |-> None,
     min |-> None, max |-> None, window_size |-> None,
     max_relative_change |-> None, statistics |-> None]

PopulationSpec ==
    [data_source |-> None, boolean_pref |-> None, channel |-> None,
     branches |-> None, dimensions |-> <<>>,
     monitor_entire_population |-> FALSE, group_by_dimension |-> None]

ProjectSpec ==
    [name |-> None, platform |-> None, xaxis |-> None, start_date |-> None,
     end_date |-> None, metrics |-> <<>>, alerts |-> <<>>,
     reference_branch |-> None, population |-> PopulationSpec,
     compact_visualization |-> FALSE, skip_default_metrics |-> FALSE,
     skip |-> FALSE]

\* MonitoringSpec.from_dict({}); alerts maps a name to an AlertDefinition
\* value in a document and to an object id in a constructed spec.
MonitoringSpec ==
    [project |-> ProjectSpec, data_sources |-> EmptyDict, metrics |-> EmptyDict,
     dimensions |-> EmptyDict, alerts |-> EmptyDict, resolved |-> FALSE]

----------------------------------------------------------------------------
(* AlertDefinition.__attrs_post_init__ *)

\* A none_fields table that forgets max_relative_change for threshold and
\* max for avg_diff.
NoneFieldsForgetful(type) ==
    CASE type = "ci_overlap" -> <<"min", "max", "window_size", "max_relative_change">>
      [] type = "threshold"  -> <<"window_size">>
      [] type = "avg_diff"   -> <<"min">>

\* The fields that must be None for each alert type.
NoneFields(type) ==
    CASE type = "ci_overlap" -> <<"min", "max", "window_size", "max_relative_change">>
      [] type = "threshold"  -> <<"window_size", "max_relative_change">>
      [] type = "avg_diff"   -> <<"min", "max">>

\* The type-specific checks made before the none_fields loop: "" when they
\* pass, else the field the ValueError is about.
TypeCheck(a) ==
    CASE a.type = "ci_overlap" -> ""
      [] a.type = "threshold" ->
            IF a.min = None /\ a.max = None THEN "min_or_max"
            ELSE IF TruthyList(a.min) /\ TruthyList(a.parameters)
                    /\ Len(a.min[1]) # Len(a.parameters[1]) THEN "min"
            ELSE IF TruthyList(a.max) /\ TruthyList(a.parameters)
                    /\ Len(a.max[1]) # Len(a.parameters[1]) THEN "max"
            ELSE ""
      [] a.type = "avg_diff" ->
            IF a.window_size = None THEN "window_size"
            ELSE IF a.max_relative_change = None THEN "max_relative_change"
            ELSE ""

\* The whole validation: Ok(a) when construction succeeds, else the
\* ValueError naming the offending field.
AlertPostInit(a) ==
    LET none_fields == NoneFields(a.type)
        set == {i \in 1..Len(none_fields) : a[none_fields[i]] # None}
        first == CHOOSE i \in set : \A j \in set : i <= j
    IN  IF TypeCheck(a) # "" THEN Raise("AlertShape", TypeCheck(a))
        ELSE IF set # {} THEN Raise("AlertMustNotBeSet", none_fields[first])
        ELSE Ok(a)

----------------------------------------------------------------------------
(* Reference and definition resolution *)

\* DataSourceReference.resolve, then DataSourceDefinition.resolve: the
\* DataSource carries the definition's five fields.
DataSourceResolve(name, s) ==
    IF name \notin DOMAIN s.data_sources
    THEN Raise("DataSourceNotDefined", name)
    ELSE Ok(s.data_sources[name])

\* One pass of the statistics loop of MetricDefinition.resolve.
SummaryFor(d, statistic_name, s) ==
    LET ds == DataSourceResolve(d.data_source, s)
    IN  IF ~ds.ok THEN ds
        ELSE IF statistic_name \notin KnownStatistics
        THEN Raise("StatisticNotExist", statistic_name)
        ELSE Ok([metric |-> [name |-> d.name, data_source |-> ds.val,
                             select_expression |-> d.select_expression,
                             friendly_name |-> d.friendly_name,
                             description |-> d.description,
                             category |-> d.category,
                             type |-> PyOr(d.type, Some("scalar"), "")],
                 statistic |-> statistic_name])

\* Runs the fallible steps r[1], r[2], ... in order: the first error, or the
\* sequence of their values.
InOrder(r) ==
    LET bad == {i \in 1..Len(r) : ~r[i].ok}
    IN  IF bad # {} THEN r[CHOOSE i \in bad : \A j \in bad : i <= j]
        ELSE Ok([i \in 1..Len(r) |-> r[i].val])

\* MetricDefinition.resolve: a Summary per statistic, in declaration order;
\* nothing at all (no data source lookup either) when statistics is falsy.
MetricDefinitionResolve(d, s) ==
    IF d.statistics = None \/ d.statistics[1] = <<>> THEN Ok(<<>>)
    ELSE InOrder([i \in 1..Len(d.statistics[1]) |->
                    SummaryFor(d, d.statistics[1][i], s)])

\* DimensionDefinition.resolve.
DimensionDefinitionResolve(d, s) ==
    LET ds == DataSourceResolve(d.data_source, s)
    IN  IF ~ds.ok THEN ds
        ELSE Ok([name |-> d.name, data_source |-> ds.val,
                 select_expression |-> d.select_expression,
                 friendly_name |-> d.friendly_name,
                 description |-> d.description])

\* DimensionReference.resolve.
DimensionReferenceResolve(name, s) ==
    IF name \in DOMAIN s.dimensions
    THEN DimensionDefinitionResolve(s.dimensions[name], s)
    ELSE Raise("CouldNotLocateDimension", name)

\* `for x in {names}: ...` of a resolve loop: the names are visited in the
\* order ord; res[n] is what visiting n yields (a list that is added to the
\* result, or an error that ends the loop).
LoopOver(ord, res) ==
    LET r == InOrder([i \in 1..Len(ord) |-> res[ord[i]]])
    IN  IF r.ok THEN Ok(Flatten(r.val)) ELSE r

\* A metric loop that passes over the names without a definition.
MetricsLoopSkippingUndefined(refs, s, ord, msg) ==
    LoopOver(ord, [n \in Range(refs) |->
        IF n \in DOMAIN s.metrics THEN MetricDefinitionResolve(s.metrics[n], s)
        ELSE Ok(<<>>)])

\* The metric loop shared by MonitoringSpec.resolve and
\* AlertDefinition.resolve: each distinct referenced name once.
MetricsLoop(refs, s, ord, msg) ==
    LoopOver(ord, [n \in Range(refs) |->
        IF n \in DOMAIN s.metrics THEN MetricDefinitionResolve(s.metrics[n], s)
        ELSE Raise(msg, n)])

\* An allow-list passed on as it is, unknown names included.
AlertStatisticsUnchecked(a, sord) ==
    IF ~TruthyList(a.statistics) THEN Ok(None) ELSE Ok(Some(sord))

\* The statistics allow-list of AlertDefinition.resolve.
AlertStatistics(a, sord) ==
    IF ~TruthyList(a.statistics) THEN Ok(None)
    ELSE LET r == InOrder([i \in 1..Len(sord) |->
                     IF sord[i] \in KnownStatistics THEN Ok(sord[i])
                     ELSE Raise("AlertStatisticNotExist", sord[i])])
         IN  IF r.ok THEN Ok(Some(r.val)) ELSE r

\* AlertDefinition.resolve with the two sets iterated in the orders mord
\* and sord.
AlertDefinitionResolve(a, s, mord, sord) ==
    LET metrics == MetricsLoop(a.metrics, s, mord, "AlertNoDefinitionForMetric")
        statistics == AlertStatistics(a, sord)
    IN  IF ~metrics.ok THEN metrics
        ELSE IF ~statistics.ok THEN statistics
        ELSE Ok([name |-> a.name, type |-> a.type, metrics |-> metrics.val,
                 friendly_name |-> a.friendly_name,
                 description |-> a.description, parameters |-> a.parameters,
                 min |-> a.min, max |-> a.max, window_size |-> a.window_size,
                 max_relative_change |-> a.max_relative_change,
                 statistics |-> statistics.val])

\* A loop over the references themselves, repeats included.
ListIteration(refs) == {refs}

\* `for x in {r.name for r in refs}`: the sequences of names such a loop can
\* visit, each distinct name once, in any order.
SetIterations(refs) == Orderings(Range(refs))

\* Every result AlertDefinition.resolve can give, over the iteration orders.
AlertDefinitionResolutions(a, s) ==
    {AlertDefinitionResolve(a, s, mord, sord) :
        mord \in SetIterations(a.metrics),
        sord \in SetIterations(IF a.statistics = None THEN <<>>
                               ELSE a.statistics[1])}

----------------------------------------------------------------------------
(* Population and project resolution *)

\* An Experiment as Optional record; its datetimes are UTC (both
\* ExperimentV1.to_experiment and ExperimentV6.to_experiment make them so).
IsRollout(experiment) == experiment # None /\ experiment[1].is_rollout

\* _parse_date: None for None and for "", else midnight UTC of that day.
ParseDate(yyyy_mm_dd) ==
    IF yyyy_mm_dd = None \/ yyyy_mm_dd[1] = "" THEN None
    ELSE Some([date |-> yyyy_mm_dd[1], secs |-> 0])

\* datetime.strftime("%Y-%m-%d"): the day, the time of day is dropped.
Strftime(datetime) == datetime.date

\* No containment check at all.
GroupByNeverChecked(p) == TRUE

\* `self.group_by_dimension in self.dimensions` (attrs equality of the
\* references: equal names), for a population whose group_by_dimension is set.
GroupByListed(p) == p.group_by_dimension[1] \in Range(p.dimensions)

\* The boolean_pref argument of PopulationSpec.resolve.
ResolveBooleanPref(p, experiment) ==
    PyOr(p.boolean_pref,
         IF experiment # None /\ ~experiment[1].is_rollout
         THEN experiment[1].boolean_pref ELSE None, "")

\* The experiment's channel kept from a rollout, as its boolean_pref is.
ResolveChannelNotForRollouts(p, experiment) ==
    PyOrObj(p.channel,
            IF experiment # None /\ ~experiment[1].is_rollout
            THEN experiment[1].channel ELSE None)

\* The channel argument of PopulationSpec.resolve.
ResolveChannel(p, experiment) ==
    PyOrObj(p.channel,
            IF experiment # None THEN experiment[1].channel ELSE None)

\* The experiment's branches taken whatever the spec's boolean_pref.
ResolveBranchesIgnoringPref(p, experiment) ==
    IF p.branches # None THEN p.branches[1]
    ELSE IF experiment # None /\ ~experiment[1].is_rollout
         THEN experiment[1].branches
         ELSE <<>>

\* The branches argument of PopulationSpec.resolve; the experiment's
\* branches are held as the list of their slugs.
ResolveBranches(p, experiment) ==
    IF p.branches # None THEN p.branches[1]
    ELSE IF experiment # None /\ p.boolean_pref = None
            /\ ~experiment[1].is_rollout
         THEN experiment[1].branches
         ELSE <<>>

\* PopulationSpec.resolve.
PopulationSpecResolve(p, s, experiment) ==
    LET data_source == IF p.data_source # None
                       THEN DataSourceResolve(p.data_source[1], s)
                       ELSE Ok(None)
        group_by == IF p.group_by_dimension # None
                    THEN DimensionReferenceResolve(p.group_by_dimension[1], s)
                    ELSE Ok(None)
    IN  IF p.group_by_dimension # None /\ ~GroupByListed(p)
        THEN Raise("GroupByNotListed", p.group_by_dimension[1])
        ELSE IF ~data_source.ok THEN data_source
        ELSE IF ~group_by.ok THEN group_by
        ELSE Ok([data_source |-> IF p.data_source # None
                                 THEN Some(data_source.val) ELSE None,
                 boolean_pref |-> ResolveBooleanPref(p, experiment),
                 channel |-> ResolveChannel(p, experiment),
                 branches |-> ResolveBranches(p, experiment),
                 monitor_entire_population |-> p.monitor_entire_population,
                 group_by_dimension |-> IF p.group_by_dimension # None
                                        THEN Some(group_by.val) ELSE None])

\* The experiment's datetime taken as it is, without the round trip
\* through a date string.
ResolveDateKeepingTime(own, experiment_date) ==
    IF own # None /\ own[1] # "" THEN ParseDate(own) ELSE experiment_date

\* The start_date / end_date argument of ProjectSpec.resolve.
ResolveDate(own, experiment_date) ==
    ParseDate(PyOr(own,
                   IF experiment_date # None
                   THEN Some(Strftime(experiment_date[1])) ELSE None,
                   ""))

\* ProjectSpec.resolve.
ProjectSpecResolve(pr, s, experiment) ==
    LET population == PopulationSpecResolve(pr.population, s, experiment)
    IN  IF ~population.ok THEN population
        ELSE Ok([name |-> PyOr(pr.name,
                               IF experiment # None THEN experiment[1].name
                               ELSE None, ""),
                 xaxis |-> PyOrObj(pr.xaxis, Some("submission_date")),
                 start_date |->
                    ResolveDate(pr.start_date,
                                IF experiment # None
                                THEN experiment[1].start_date ELSE None),
                 end_date |->
                    ResolveDate(pr.end_date,
                                IF experiment # None
                                THEN experiment[1].end_date ELSE None),
                 population |-> population.val,
                 reference_branch |->
                    PyOr(pr.reference_branch,
                         IF experiment # None
                            /\ experiment[1].reference_branch # None
                            /\ experiment[1].reference_branch[1] # ""
                         THEN experiment[1].reference_branch
                         ELSE Some("control"), ""),
                 compact_visualization |-> pr.compact_visualization,
                 skip_default_metrics |-> pr.skip_default_metrics,
                 skip |-> pr.skip,
                 platform |-> pr.platform])

----------------------------------------------------------------------------
(* MonitoringSpec.resolve *)

\* The distinct names of a list of references.
Names(refs) == Range(refs)

\* What the single-resolution guard lets through.
AlreadyResolved(s) == s.resolved

\* _resolved set only by a call that returns a configuration.
ResolvedOnlyOnSuccess(s, r) == r.ok

\* The value of _resolved once a call has passed the guard and ended with
\* result r: the flag is set before anything is resolved.
ResolvedAfter(s, r) == TRUE

\* The body with the project resolved before the referenced metrics,
\* dimensions and alerts.
ResolveBodyProjectFirst(s, experiment, mord, dord, aord, ares) ==
    LET metrics == MetricsLoop(s.project.metrics, s, mord, "NoDefinitionForMetric")
        dimensions ==
            LoopOver(dord, [n \in Names(s.project.population.dimensions) |->
                IF n \in DOMAIN s.dimensions
                THEN LET d == DimensionDefinitionResolve(s.dimensions[n], s)
                     IN  IF d.ok THEN Ok(<<d.val>>) ELSE d
                ELSE Raise("NoDefinitionForDimension", n)])
        alerts ==
            LoopOver(aord, [n \in Names(s.project.alerts) |->
                IF n \in DOMAIN s.alerts
                THEN IF ares[n].ok THEN Ok(<<ares[n].val>>) ELSE ares[n]
                ELSE Raise("NoDefinitionForAlert", n)])
        project == ProjectSpecResolve(s.project, s, experiment)
    IN  IF ~project.ok THEN project
        ELSE IF ~metrics.ok THEN metrics
        ELSE IF ~dimensions.ok THEN dimensions
        ELSE IF ~alerts.ok THEN alerts
        ELSE Ok([project |-> project.val, metrics |-> metrics.val,
                 dimensions |-> dimensions.val, alerts |-> alerts.val])

\* The body of MonitoringSpec.resolve after the guard, with the three sets
\* iterated in the orders mord, dord, aord and ares[n] the result of
\* resolving alert n.  h is the heap of AlertDefinition objects.
ResolveBody(s, experiment, mord, dord, aord, ares) ==
    LET metrics == MetricsLoop(s.project.metrics, s, mord, "NoDefinitionForMetric")
        dimensions ==
            LoopOver(dord, [n \in Names(s.project.population.dimensions) |->
                IF n \in DOMAIN s.dimensions
                THEN LET d == DimensionDefinitionResolve(s.dimensions[n], s)
                     IN  IF d.ok THEN Ok(<<d.val>>) ELSE d
                ELSE Raise("NoDefinitionForDimension", n)])
        alerts ==
            LoopOver(aord, [n \in Names(s.project.alerts) |->
                IF n \in DOMAIN s.alerts
                THEN IF ares[n].ok THEN Ok(<<ares[n].val>>) ELSE ares[n]
                ELSE Raise("NoDefinitionForAlert", n)])
        project == ProjectSpecResolve(s.project, s, experiment)
    IN  IF ~metrics.ok THEN metrics
        ELSE IF ~dimensions.ok THEN dimensions
        ELSE IF ~alerts.ok THEN alerts
        ELSE IF ~project.ok THEN project
        ELSE Ok([project |-> project.val, metrics |-> metrics.val,
                 dimensions |-> dimensions.val, alerts |-> alerts.val])

\* The metrics table filtered, in the spec itself, down to the metrics
\* the project references.
SpecAfterResolveFiltering(s, r) ==
    [s EXCEPT !.resolved = TRUE,
              !.metrics = [n \in DOMAIN s.metrics \cap Names(s.project.metrics)
                            |-> s.metrics[n]]]

\* The spec once resolve has ended with result r: the guard raises before
\* anything is assigned; past it only _resolved is assigned, the lists
\* resolve builds being local.
SpecAfterResolve(s, r) ==
    IF AlreadyResolved(s) THEN s
    ELSE [s EXCEPT !.resolved = ResolvedAfter(s, r)]

\* Every way of resolving the referenced alerts that are defined.
AlertChoices(s, h) ==
    LET D == Names(s.project.alerts) \cap DOMAIN s.alerts
        R(n) == AlertDefinitionResolutions(h[s.alerts[n]], s)
    IN  {f \in [D -> UNION {R(n) : n \in D}] : \A n \in D : f[n] \in R(n)}

\* Every result MonitoringSpec.resolve(experiment) can give on s.
MonitoringSpecResolve(s, h, experiment) ==
    IF AlreadyResolved(s) THEN {Raise("ResolveTwice", "")}
    ELSE {ResolveBody(s, experiment, mord, dord, aord, ares) :
            mord \in SetIterations(s.project.metrics),
            dord \in SetIterations(s.project.population.dimensions),
            aord \in SetIterations(s.project.alerts),
            ares \in AlertChoices(s, h)}

----------------------------------------------------------------------------
(* merge *)

\* Branches merged as the other fields are: other's list when it has one.
PopulationSpecMergeOverwritingBranches(a, b) ==
    [data_source |-> PyOrObj(b.data_source, a.data_source),
     boolean_pref |-> PyOr(b.boolean_pref, a.boolean_pref, ""),
     channel |-> PyOrObj(b.channel, a.channel),
     branches |-> IF b.branches # None THEN b.branches ELSE a.branches,
     dimensions |-> a.dimensions \o b.dimensions,
     monitor_entire_population |->
        b.monitor_entire_population \/ a.monitor_entire_population,
     group_by_dimension |-> PyOrObj(b.group_by_dimension, a.group_by_dimension)]

\* PopulationSpec.merge: self is a, other is b.
PopulationSpecMerge(a, b) ==
    [data_source |-> PyOrObj(b.data_source, a.data_source),
     boolean_pref |-> PyOr(b.boolean_pref, a.boolean_pref, ""),
     channel |-> PyOrObj(b.channel, a.channel),
     branches |-> IF a.branches # None THEN a.branches ELSE b.branches,
     dimensions |-> a.dimensions \o b.dimensions,
     monitor_entire_population |->
        b.monitor_entire_population \/ a.monitor_entire_population,
     group_by_dimension |-> PyOrObj(b.group_by_dimension, a.group_by_dimension)]

\* A project merge in which other's flags replace self's.
ProjectSpecMergeOverwritingFlags(a, b) ==
    [name |-> PyOr(b.name, a.name, ""),
     platform |-> PyOr(b.platform, a.platform, ""),
     xaxis |-> PyOrObj(b.xaxis, a.xaxis),
     start_date |-> PyOr(b.start_date, a.start_date, ""),
     end_date |-> PyOr(b.end_date, a.end_date, ""),
     metrics |-> a.metrics \o b.metrics,
     alerts |-> a.alerts \o b.alerts,
     reference_branch |-> PyOr(b.reference_branch, a.reference_branch, ""),
     population |-> PopulationSpecMerge(a.population, b.population),
     compact_visualization |-> b.compact_visualization,
     skip_default_metrics |-> b.skip_default_metrics,
     skip |-> b.skip]

\* ProjectSpec.merge: self is a, other is b.
ProjectSpecMerge(a, b) ==
    [name |-> PyOr(b.name, a.name, ""),
     platform |-> PyOr(b.platform, a.platform, ""),
     xaxis |-> PyOrObj(b.xaxis, a.xaxis),
     start_date |-> PyOr(b.start_date, a.start_date, ""),
     end_date |-> PyOr(b.end_date, a.end_date, ""),
     metrics |-> a.metrics \o b.metrics,
     alerts |-> a.alerts \o b.alerts,
     reference_branch |-> PyOr(b.reference_branch, a.reference_branch, ""),
     population |-> PopulationSpecMerge(a.population, b.population),
     compact_visualization |-> b.compact_visualization \/ a.compact_visualization,
     skip_default_metrics |-> b.skip_default_metrics \/ a.skip_default_metrics,
     skip |-> b.skip \/ a.skip]

\* The field loop of AlertsSpec.merge on the object stored in self (mine),
\* reading the object of other (theirs); they may be one and the same.
MergeAlertFields(mine, theirs) ==
    [name |-> IF theirs.name # "" THEN theirs.name ELSE mine.name,
     type |-> theirs.type,
     metrics |-> mine.metrics \o theirs.metrics,
     friendly_name |-> PyOr(theirs.friendly_name, mine.friendly_name, ""),
     description |-> PyOr(theirs.description, mine.description, ""),
     parameters |-> PyOr(theirs.parameters, mine.parameters, <<>>),
     min |-> PyOr(theirs.min, mine.min, <<>>),
     max |-> PyOr(theirs.max, mine.max, <<>>),
     window_size |-> PyOr(theirs.window_size, mine.window_size, 0),
     max_relative_change |->
        PyOr(theirs.max_relative_change, mine.max_relative_change, 0),
     statistics |-> PyOr(theirs.statistics, mine.statistics, <<>>)]

\* The heap after the loop of AlertsSpec.merge: every object self holds
\* under a name other defines too is updated in place.
AlertsMergeHeap(self, other, h) ==
    LET both == (DOMAIN self) \cap (DOMAIN other)
        hit == {self[n] : n \in both}
        nameOf(o) == CHOOSE n \in both : self[n] = o
    IN  [o \in DOMAIN h |->
            IF o \in hit
            THEN MergeAlertFields(h[o], h[other[nameOf(o)]])
            ELSE h[o]]

\* The table of self after the loop of AlertsSpec.merge: names new to self
\* are bound to other's object, names self has keep self's object.
AlertsMergeLoop(self, other) ==
    [n \in (DOMAIN self) \cup (DOMAIN other) |->
        IF n \in DOMAIN self THEN self[n] ELSE other[n]]

\* AlertsSpec.merge: the loop, then self.definitions.update(other.definitions).
AlertsSpecMerge(self, other) == DictUpdate(AlertsMergeLoop(self, other), other)

\* MonitoringSpec.merge(other) for another spec o: the spec part.
MonitoringSpecMerge(s, o) ==
    [project |-> ProjectSpecMerge(s.project, o.project),
     data_sources |-> DictUpdate(s.data_sources, o.data_sources),
     metrics |-> DictUpdate(s.metrics, o.metrics),
     dimensions |-> DictUpdate(s.dimensions, o.dimensions),
     alerts |-> AlertsSpecMerge(s.alerts, o.alerts),
     resolved |-> s.resolved]

\* An absent layer taken for a new, unresolved spec.
MergeOptionalResetting(s, other) ==
    IF other = None THEN [s EXCEPT !.resolved = FALSE]
    ELSE MonitoringSpecMerge(s, other[1])

\* MonitoringSpec.merge(other) for an Optional other: `if other:` lets
\* only a spec through.
MergeOptional(s, other) ==
    IF other = None THEN s ELSE MonitoringSpecMerge(s, other[1])

----------------------------------------------------------------------------
(* The configuration documents and experiments the model draws from *)

MaxMerges == 2
MaxResolves == 2

AlertX1 ==
    [AlertDefinition("x", "threshold", <<"test">>) EXCEPT
        !.min = Some(<<1>>), !.friendly_name = Some("A")]

AlertX2 ==
    [AlertDefinition("x", "threshold", <<"test2">>) EXCEPT !.max = Some(<<3>>)]

AlertY == AlertDefinition("y", "ci_overlap", <<"nometric">>)

\* The documents of src/opmon/tests/test_config.py and variations of them.
Docs == <<
    \* 1: {}
    MonitoringSpec,
    \* 2: definitions only (first document of test_merge, plus an alert)
    [MonitoringSpec EXCEPT
        !.data_sources = DictOf({DataSourceDefinition("foo", "test")}),
        !.metrics = DictOf({
            MetricDefinition("test", "SELECT 1", "foo", Some(<<"sum">>)),
            MetricDefinition("test2", "SELECT 2", "foo", Some(<<"percentile">>))}),
        !.dimensions = DictOf({DimensionDefinition("os", "os", "foo")}),
        !.alerts = DictOf({AlertX1})],
    \* 3: second document of test_merge
    [MonitoringSpec EXCEPT
        !.project.name = Some("foo"),
        !.project.metrics = <<"test", "test2">>,
        !.data_sources = DictOf({DataSourceDefinition("foo", "bar")}),
        !.metrics = DictOf({
            MetricDefinition("test", "SELECT 'd'", "foo",
                             Some(<<"mean", "count">>))})],
    \* 4: repeated references (test_duplicate_metrics_are_okay) and alert x again
    [MonitoringSpec EXCEPT
        !.project.metrics = <<"test", "test">>,
        !.project.alerts = <<"x", "x">>,
        !.project.population.dimensions = <<"os", "os">>,
        !.alerts = DictOf({AlertX2})],
    \* 5: a reference nobody defines (test_unknown_metric_failure)
    [MonitoringSpec EXCEPT
        !.project.metrics = <<"test", "missing">>],
    \* 6: group_by_dimension without dimensions (test_group_by_fail)
    [MonitoringSpec EXCEPT
        !.project.population.data_source = Some("foo"),
        !.project.population.group_by_dimension = Some("os")],
    \* 7: the dimension and the alert are referenced
    [MonitoringSpec EXCEPT
        !.project.population.dimensions = <<"os">>,
        !.project.alerts = <<"x">>],
    \* 8: an undefined dimension, an undefined alert, an alert on an undefined metric
    [MonitoringSpec EXCEPT
        !.project.population.dimensions = <<"nodim">>,
        !.project.alerts = <<"noalert", "y">>,
        !.alerts = DictOf({AlertY})],
    \* 9: definitions that cannot be resolved
    [MonitoringSpec EXCEPT
        !.metrics = DictOf({
            MetricDefinition("test2", "SELECT 3", "nods", Some(<<"sum">>)),
            MetricDefinition("test", "SELECT 4", "foo", Some(<<"sum", "bogus">>))}),
        !.dimensions = DictOf({DimensionDefinition("os", "os2", "nods")})]
    >>

DocIds == 1..Len(Docs)

Exp1 ==
    [name |-> Some("exp"), start_date |-> Some([date |-> "2022-01-01", secs |-> 3600]),
     end_date |-> None, branches |-> <<"control", "treatment">>,
     reference_branch |-> Some("control"), boolean_pref |-> Some("pref"),
     channel |-> Some("release"), is_rollout |-> FALSE]

Experiments == {None, Some(Exp1)}

\* The spec objects: the one that is merged into and resolved, and the
\* layers handed to its merge.
LayerIds == {"L1", "L2"}
SpecIds == {"target"} \cup LayerIds

\* The id of the AlertDefinition object spec i builds for alert n.
ObjId(i, n) == <<i, n>>

\* MonitoringSpec.from_dict(doc) for spec object i: its alerts table points
\* at the objects it has just built.
FromDict(i, doc) ==
    [doc EXCEPT !.alerts = [n \in DOMAIN doc.alerts |-> ObjId(i, n)]]

NotCalled == Raise("NotCalled", "")

AlertIdle == AlertDefinition("", "ci_overlap", <<>>)

----------------------------------------------------------------------------
(* Specification of merge and resolve on one target spec *)

AlertIdleState == alertIn = AlertIdle /\ alertOut = NotCalled
ProjIdleState == projIn = ProjectSpec /\ projExp = None /\ projOut = NotCalled
CallIdleState ==
    /\ metricIn = <<>> /\ metricOut = NotCalled
    /\ runnableIn = <<>> /\ runnableOut = NotCalled
RunIdleState == pc = <<>> /\ configs = <<>>
IoIdleState == frame = <<>> /\ remote = <<>>

Init ==
    /\ docOf \in [SpecIds -> DocIds]
    /\ specs = [i \in SpecIds |-> FromDict(i, Docs[docOf[i]])]
    /\ heap = [o \in {ObjId(i, n) : i \in SpecIds, n \in {"x", "y"}} \cap
                     UNION {{ObjId(i, n) : n \in DOMAIN Docs[docOf[i]].alerts} :
                            i \in SpecIds}
               |-> Docs[docOf[o[1]]].alerts[o[2]]]
    /\ last = [op |-> "init", layer |-> "", experiment |-> None]
    /\ merged = <<>>
    /\ nResolves = 0
    /\ outcome = <<>>
    /\ AlertIdleState
    /\ ProjIdleState
    /\ CallIdleState
    /\ RunIdleState
    /\ IoIdleState

\* target.merge(specs[l])
Merge(l) ==
    /\ Len(merged) < MaxMerges
    /\ specs' = [specs EXCEPT
                    !["target"] = MergeOptional(specs["target"], Some(specs[l]))]
    /\ heap' = AlertsMergeHeap(specs["target"].alerts, specs[l].alerts, heap)
    /\ last' = [op |-> "merge", layer |-> l, experiment |-> None]
    /\ merged' = Append(merged, l)
    /\ UNCHANGED <<docOf, nResolves, outcome, alertVars, projVars, callVars, runVars, ioVars>>

\* target.merge(None): `if other:` fails and no sub-component is merged,
\* so no AlertDefinition object is touched.
MergeNone ==
    /\ Len(merged) < MaxMerges
    /\ specs' = [specs EXCEPT !["target"] = MergeOptional(specs["target"], None)]
    /\ last' = [op |-> "mergeNone", layer |-> "", experiment |-> None]
    /\ merged' = Append(merged, "None")
    /\ UNCHANGED <<heap, docOf, nResolves, outcome, alertVars, projVars, callVars, runVars, ioVars>>

\* target.resolve(experiment); outcome lists what each call so far gave.
Resolve(experiment) ==
    /\ nResolves < MaxResolves
    /\ \E r \in MonitoringSpecResolve(specs["target"], heap, experiment) :
        /\ outcome' = Append(outcome, r)
        /\ specs' = [specs EXCEPT
                        !["target"] = SpecAfterResolve(specs["target"], r)]
    /\ last' = [op |-> "resolve", layer |-> "", experiment |-> experiment]
    /\ nResolves' = nResolves + 1
    /\ UNCHANGED <<heap, docOf, merged, alertVars, projVars, callVars, runVars, ioVars>>

Next ==
    \/ \E l \in LayerIds : Merge(l)
    \/ MergeNone
    \/ \E experiment \in Experiments : Resolve(experiment)

Spec == Init /\ [][Next]_vars

----------------------------------------------------------------------------
(* Properties of merge and resolve *)

Target == specs["target"]

\* What the latest resolve call gave.
LastOutcome == outcome[Len(outcome)]

\* The target's state is the one a resolve call has just seen (but for the
\* flag): nothing was merged since.
JustResolved == last.op = "resolve"

\* The first resolve call has just been made.
FirstResolve == JustResolved /\ Len(outcome) = 1

\* The spec objects whose definitions the target has received, in merge
\* order, the target's own document first.
Stack == <<"target">> \o SelectSeq(merged, LAMBDA l : l # "None")

DocTable(i, t) == Docs[docOf[i]][t]

\* The last layer of the stack whose document defines n in table t.
LastDefiner(t, n) ==
    LET idx == {k \in 1..Len(Stack) : n \in DOMAIN DocTable(Stack[k], t)}
    IN  Stack[CHOOSE k \in idx : \A j \in idx : j <= k]

ValueTables == {"data_sources", "metrics", "dimensions"}

\* C1: every resolve call on a spec after the first one raises the
\* "Can't resolve an MonitoringSpec twice" Exception, whatever the
\* experiment, whatever was merged in between, and whether the first call
\* returned a configuration or raised.
C1_SingleResolution ==
    \A i \in 2..Len(outcome) : outcome[i] = Raise("ResolveTwice", "")

\* A second resolve, with an experiment, after merges, of a spec whose
\* first resolve raised a ValueError.
C1_Witness ==
    /\ JustResolved /\ Len(outcome) = 2
    /\ ~outcome[1].ok /\ ExcClass(outcome[1].err.msg) = "ValueError"
    /\ outcome[2].err.msg = "ResolveTwice"
    /\ last.experiment # None
    /\ \E k \in 1..Len(merged) : merged[k] # "None"

\* C2: after any sequence of merges, each name of the data_sources,
\* metrics and dimensions tables maps to the whole definition given by the
\* last merged layer that defines it (names only the target defines keep
\* the target's), and a resolved metric or dimension carries that
\* definition's select_expression and that data source.
C2_MergePrecedence ==
    /\ \A t \in ValueTables :
        /\ DOMAIN Target[t] = UNION {DOMAIN DocTable(Stack[k], t) : k \in 1..Len(Stack)}
        /\ \A n \in DOMAIN Target[t] : Target[t][n] = DocTable(LastDefiner(t, n), t)[n]
    /\ (JustResolved /\ LastOutcome.ok) =>
        /\ \A k \in 1..Len(LastOutcome.val.metrics) :
            LET m == LastOutcome.val.metrics[k].metric
                d == DocTable(LastDefiner("metrics", m.name), "metrics")[m.name]
            IN  /\ m.select_expression = d.select_expression
                /\ m.data_source =
                     DocTable(LastDefiner("data_sources", d.data_source),
                              "data_sources")[d.data_source]
        /\ \A k \in 1..Len(LastOutcome.val.dimensions) :
            LET m == LastOutcome.val.dimensions[k]
                d == DocTable(LastDefiner("dimensions", m.name), "dimensions")[m.name]
            IN  /\ m.select_expression = d.select_expression
                /\ m.data_source =
                     DocTable(LastDefiner("data_sources", d.data_source),
                              "data_sources")[d.data_source]

\* Metric test is defined by the target and redefined, differently, by a
\* merged layer, and the resolved configuration holds its summaries.
C2_Witness ==
    /\ JustResolved /\ LastOutcome.ok
    /\ "test" \in DOMAIN DocTable("target", "metrics")
    /\ LastDefiner("metrics", "test") # "target"
    /\ Target.metrics["test"] # DocTable("target", "metrics")["test"]
    /\ "foo" \in DOMAIN DocTable("target", "data_sources")
    /\ LastDefiner("data_sources", "foo") # "target"
    /\ Target.data_sources["foo"] # DocTable("target", "data_sources")["foo"]
    /\ \E k \in 1..Len(LastOutcome.val.metrics) :
        LastOutcome.val.metrics[k].metric.name = "test"
    /\ "test2" \in DOMAIN Target.metrics
    /\ LastDefiner("metrics", "test2") = "target"

\* The alert names the target and layer l both hold.
SharedAlerts(l) == (DOMAIN Target.alerts) \cap (DOMAIN specs[l].alerts)

\* The step is target.merge(specs[l]).
MergeStep(l) == last'.op = "merge" /\ last'.layer = l

\* C3: when alert X is defined in self with metrics=[m1] and in other with
\* metrics=[m2], the definition stored under X in self after
\* self.merge(other) lists both m1 and m2.
C3_AlertMetricsConcatenated ==
    [][\A l \in LayerIds : MergeStep(l) =>
        \A x \in SharedAlerts(l) :
            Range(heap[Target.alerts[x]].metrics)
              \cup Range(heap[specs[l].alerts[x]].metrics)
            \subseteq Range(heap'[specs'["target"].alerts[x]].metrics)]_vars

\* The non-list fields of an AlertDefinition with the falsy value of each.
ScalarFields ==
    [type |-> "", friendly_name |-> "", description |-> "",
     parameters |-> <<>>, min |-> <<>>, max |-> <<>>, window_size |-> 0,
     max_relative_change |-> 0, statistics |-> <<>>]

\* `theirs or mine` for field f of two alert definitions.
FieldOr(f, theirs, mine) ==
    IF f = "type" THEN theirs.type
    ELSE PyOr(theirs[f], mine[f], ScalarFields[f])

\* C4: when alert X is defined in both self and other, every non-list
\* field of the definition stored under X in self after self.merge(other)
\* is other's value if that is truthy and else the value self's X had
\* before the merge.
C4_AlertScalarsFieldwise ==
    [][\A l \in LayerIds : MergeStep(l) =>
        \A x \in SharedAlerts(l) : \A f \in DOMAIN ScalarFields :
            heap'[specs'["target"].alerts[x]][f]
              = FieldOr(f, heap[specs[l].alerts[x]], heap[Target.alerts[x]])]_vars

\* Number of entries of a resolved list that carry name n.
CountNamed(list, n, NameOf(_)) ==
    Cardinality({k \in 1..Len(list) : NameOf(list[k]) = n})

SummaryName(summary) == summary.metric.name
OwnName(x) == x.name

\* len(statistics) of a metric definition, 0 when statistics is None.
NumStatistics(d) == IF d.statistics = None THEN 0 ELSE Len(d.statistics[1])

\* C5: a successful resolve holds, for each distinct name of
\* project.metrics, exactly one Summary per statistic of that metric, and
\* exactly one entry for each distinct dimension name and each distinct
\* alert name, however often the names are repeated in the lists; nothing
\* else is in the resolved lists.
C5_Deduplication ==
    (JustResolved /\ LastOutcome.ok) =>
        LET c == LastOutcome.val
            p == Target.project
        IN  /\ \A n \in Range(p.metrics) :
                CountNamed(c.metrics, n, SummaryName) = NumStatistics(Target.metrics[n])
            /\ \A k \in 1..Len(c.metrics) : c.metrics[k].metric.name \in Range(p.metrics)
            /\ \A n \in Range(p.population.dimensions) :
                CountNamed(c.dimensions, n, OwnName) = 1
            /\ Len(c.dimensions) = Cardinality(Range(p.population.dimensions))
            /\ \A n \in Range(p.alerts) : CountNamed(c.alerts, n, OwnName) = 1
            /\ Len(c.alerts) = Cardinality(Range(p.alerts))

\* A successful resolve of a project whose metric, dimension and alert
\* lists all repeat a name, the metric's repeats coming from two layers.
C5_Witness ==
    /\ JustResolved /\ LastOutcome.ok
    /\ Len(Target.project.metrics) > 2
    /\ Cardinality(Range(Target.project.metrics)) < Len(Target.project.metrics)
    /\ "test" \in Range(Docs[docOf["L1"]].project.metrics)
    /\ "test" \in Range(Docs[docOf["L2"]].project.metrics)
    /\ Len(Target.project.population.dimensions) > 1
    /\ Len(Target.project.alerts) > 1
    /\ Len(LastOutcome.val.metrics) > 0
    /\ Len(LastOutcome.val.dimensions) = 1
    /\ Len(LastOutcome.val.alerts) = 1

\* The referenced names without a definition in the target, per table.
MissingMetrics == Range(Target.project.metrics) \ DOMAIN Target.metrics
MissingDimensions ==
    Range(Target.project.population.dimensions) \ DOMAIN Target.dimensions
MissingAlerts == Range(Target.project.alerts) \ DOMAIN Target.alerts
AnyMissing == MissingMetrics \cup MissingDimensions \cup MissingAlerts # {}

\* The error is a "No definition for ..." error naming a missing reference.
NamesMissingReference(err) ==
    \/ err.msg = "NoDefinitionForMetric" /\ err.name \in MissingMetrics
    \/ err.msg = "NoDefinitionForDimension" /\ err.name \in MissingDimensions
    \/ err.msg = "NoDefinitionForAlert" /\ err.name \in MissingAlerts

LookupErrors ==
    {"NoDefinitionForMetric", "NoDefinitionForDimension", "NoDefinitionForAlert"}

\* The errors raised while a defined metric, dimension or alert is resolved.
DefinitionErrors ==
    {"DataSourceNotDefined", "StatisticNotExist", "AlertNoDefinitionForMetric",
     "AlertStatisticNotExist"}

PopulationSourcesDefined(p) ==
    /\ p.data_source # None => p.data_source[1] \in DOMAIN Target.data_sources
    /\ Target.dimensions[p.group_by_dimension[1]].data_source
         \in DOMAIN Target.data_sources

\* C7 as stated: population resolution raises ValueError when
\* group_by_dimension is set and not in the dimensions list, and succeeds
\* when the list contains it and the dimension is defined, on the merged spec.
C7_GroupByOriginal ==
    \A experiment \in Experiments :
        LET p == Target.project.population
            r == PopulationSpecResolve(p, Target, experiment)
        IN  p.group_by_dimension # None =>
              /\ p.group_by_dimension[1] \notin Range(p.dimensions) =>
                    ~r.ok /\ ExcClass(r.err.msg) = "ValueError"
              /\ (/\ p.group_by_dimension[1] \in Range(p.dimensions)
                  /\ p.group_by_dimension[1] \in DOMAIN Target.dimensions) => r.ok

\* C7 (amended): population resolution raises the "not listed as
\* dimension" ValueError when group_by_dimension is set and not in the
\* dimensions list, and succeeds, with that dimension as group-by, when
\* the list contains it, the dimension is defined and the data sources of
\* the population and of the dimension are defined; the check is made on
\* the merged spec, and so decides MonitoringSpec.resolve too.
C7_GroupByContainment ==
    LET p == Target.project.population
        gb == p.group_by_dimension
    IN  gb # None =>
          /\ \A experiment \in Experiments :
              LET r == PopulationSpecResolve(p, Target, experiment)
              IN  /\ gb[1] \notin Range(p.dimensions) =>
                        r = Raise("GroupByNotListed", gb[1])
                  /\ (/\ gb[1] \in Range(p.dimensions)
                      /\ gb[1] \in DOMAIN Target.dimensions
                      /\ PopulationSourcesDefined(p)) =>
                        /\ r.ok
                        /\ r.val.group_by_dimension # None
                        /\ r.val.group_by_dimension[1].name = gb[1]
          /\ FirstResolve =>
              /\ gb[1] \notin Range(p.dimensions) =>
                    ~LastOutcome.ok /\ ExcClass(LastOutcome.err.msg) = "ValueError"
              /\ LastOutcome.ok =>
                    /\ gb[1] \in Range(p.dimensions)
                    /\ LastOutcome.val.project.population.group_by_dimension[1].name
                         = gb[1]

\* group_by_dimension comes from one merged layer and the dimensions list
\* naming it from another, and resolve succeeded with it.
C7_Witness ==
    /\ FirstResolve /\ LastOutcome.ok
    /\ Target.project.population.group_by_dimension = Some("os")
    /\ LastOutcome.val.project.population.group_by_dimension # None
    /\ \E i, j \in Range(Stack) :
        /\ Docs[docOf[i]].project.population.group_by_dimension = Some("os")
        /\ Docs[docOf[i]].project.population.dimensions = <<>>
        /\ Docs[docOf[j]].project.population.group_by_dimension = None
        /\ "os" \in Range(Docs[docOf[j]].project.population.dimensions)

\* group_by_dimension is set, the dimensions list omits it, and resolve
\* raised the "not listed as dimension" ValueError (test_group_by_fail).
C7_WitnessFail ==
    /\ FirstResolve
    /\ Target.project.population.group_by_dimension = Some("os")
    /\ "os" \in DOMAIN Target.dimensions
    /\ LastOutcome = Raise("GroupByNotListed", "os")

----------------------------------------------------------------------------
(* Specification of AlertDefinition construction *)

MaxListLen == 2

\* Optional lists of every length up to MaxListLen (only their lengths and
\* None-ness are read by the validation).
OptLists == {None} \cup {Some([i \in 1..k |-> i]) : k \in 0..MaxListLen}

AlertInputs ==
    {[AlertDefinition("a", type, <<>>) EXCEPT
        !.parameters = parameters, !.min = min, !.max = max,
        !.window_size = window_size, !.max_relative_change = max_relative_change] :
        type \in AlertTypes, parameters \in OptLists, min \in OptLists,
        max \in OptLists, window_size \in {None, Some(7)},
        max_relative_change \in {None, Some(5)}}

MainIdleState ==
    /\ docOf = [i \in SpecIds |-> 1]
    /\ specs = [i \in SpecIds |-> MonitoringSpec]
    /\ heap = EmptyDict
    /\ last = [op |-> "init", layer |-> "", experiment |-> None]
    /\ merged = <<>>
    /\ nResolves = 0
    /\ outcome = <<>>

InitAlert ==
    /\ alertIn \in AlertInputs
    /\ alertOut = NotCalled
    /\ MainIdleState
    /\ ProjIdleState
    /\ CallIdleState
    /\ RunIdleState
    /\ IoIdleState

\* AlertDefinition(**alertIn): attrs sets the fields, then runs
\* __attrs_post_init__.
ConstructAlert ==
    /\ alertOut = NotCalled
    /\ alertOut' = AlertPostInit(alertIn)
    /\ UNCHANGED <<alertIn, mainVars, projVars, callVars, runVars, ioVars>>

NextAlert == ConstructAlert

SpecAlert == InitAlert /\ [][NextAlert]_vars

\* The shape each alert type requires of the type-dependent fields.
Shape(a) ==
    CASE a.type = "ci_overlap" ->
            /\ a.min = None /\ a.max = None
            /\ a.window_size = None /\ a.max_relative_change = None
      [] a.type = "threshold" ->
            /\ a.window_size = None /\ a.max_relative_change = None
            /\ (a.min # None \/ a.max # None)
      [] a.type = "avg_diff" ->
            /\ a.min = None /\ a.max = None
            /\ a.window_size # None /\ a.max_relative_change # None

Constructed == alertOut # NotCalled

\* C8: constructing an AlertDefinition succeeds only if the type-specific
\* shape holds and raises ValueError otherwise (ci_overlap: min, max,
\* window_size, max_relative_change unset; threshold: window_size and
\* max_relative_change unset and min or max set; avg_diff: min and max
\* unset, window_size and max_relative_change set).
C8_AlertShape ==
    Constructed =>
        /\ alertOut.ok => Shape(alertIn) /\ alertOut.val = alertIn
        /\ ~Shape(alertIn) =>
              ~alertOut.ok /\ ExcClass(alertOut.err.msg) = "ValueError"

\* A threshold alert with min set was constructed.
C8_Witness ==
    /\ Constructed /\ alertOut.ok
    /\ alertIn.type = "threshold" /\ alertIn.min = Some(<<1>>)
    /\ alertIn.max = None

\* An avg_diff alert without window_size was refused.
C8_WitnessRefused ==
    /\ Constructed /\ ~alertOut.ok
    /\ alertIn.type = "avg_diff" /\ alertIn.window_size = None

\* C9: constructing a threshold alert with parameters given raises
\* ValueError whenever min is given with len(min) # len(parameters) or max
\* is given with len(max) # len(parameters), for every given list, an
\* empty one included.
C9_ThresholdLengths ==
    (/\ Constructed
     /\ alertIn.type = "threshold"
     /\ alertIn.parameters # None
     /\ \/ alertIn.min # None /\ Len(alertIn.min[1]) # Len(alertIn.parameters[1])
        \/ alertIn.max # None /\ Len(alertIn.max[1]) # Len(alertIn.parameters[1]))
    => ~alertOut.ok /\ ExcClass(alertOut.err.msg) = "ValueError"

----------------------------------------------------------------------------
(* Specification of ProjectSpec.resolve *)

\* The date strings a ProjectSpec passes its validator with: None, the
\* empty string and a well-formed day.
OwnDates == {None, Some(""), Some("2022-02-01")}

\* Experiment datetimes: absent, midnight of a day (ExperimentV6) and a
\* time within a day (ExperimentV1, from a millisecond timestamp).
ExperimentDates ==
    {None, Some([date |-> "2022-01-01", secs |-> 0]),
     Some([date |-> "2022-01-01", secs |-> 3600])}

ProjectExperiments ==
    {None} \cup
    {Some([Exp1 EXCEPT !.start_date = sd, !.end_date = ed, !.is_rollout = ro]) :
        sd \in ExperimentDates, ed \in ExperimentDates, ro \in BOOLEAN}

InitProject ==
    /\ \E sd \in OwnDates, ed \in OwnDates :
        projIn = [ProjectSpec EXCEPT !.start_date = sd, !.end_date = ed]
    /\ projExp \in ProjectExperiments
    /\ projOut = NotCalled
    /\ MainIdleState
    /\ AlertIdleState
    /\ CallIdleState
    /\ RunIdleState
    /\ IoIdleState

\* projIn.resolve(spec, projExp), on a spec without definitions.
ResolveProject ==
    /\ projOut = NotCalled
    /\ projOut' = ProjectSpecResolve(projIn, MonitoringSpec, projExp)
    /\ UNCHANGED <<projIn, projExp, mainVars, alertVars, callVars, runVars, ioVars>>

NextProject == ResolveProject

SpecProject == InitProject /\ [][NextProject]_vars

ProjectResolved == projOut # NotCalled

\* A date of the project spec counts as set when it is a non-empty string.
DateSet(own) == own # None /\ own[1] # ""

\* The experiment's date of the given field, None without an experiment.
ExperimentDate(f) == IF projExp = None THEN None ELSE projExp[1][f]

\* C10 as stated: an explicitly set start_date (end_date) wins; when it is
\* unset the resolved value is the experiment's start_date (end_date) if
\* an experiment with that date is supplied, and None otherwise.
C10_DateFallbackOriginal ==
    ProjectResolved =>
        \A f \in {"start_date", "end_date"} :
            projOut.val[f] = IF DateSet(projIn[f])
                             THEN Some([date |-> projIn[f][1], secs |-> 0])
                             ELSE ExperimentDate(f)

\* C10 (amended): a set, non-empty start_date (end_date) wins, resolved to
\* midnight UTC of that day; when it is unset or empty the resolved value
\* is midnight UTC of the day of the experiment's start_date (end_date),
\* the experiment's time of day being dropped, if an experiment with that
\* date is supplied, and None otherwise.
C10_DateFallback ==
    ProjectResolved =>
        /\ projOut.ok
        /\ \A f \in {"start_date", "end_date"} :
            projOut.val[f] =
                IF DateSet(projIn[f])
                THEN Some([date |-> projIn[f][1], secs |-> 0])
                ELSE IF ExperimentDate(f) # None
                THEN Some([date |-> ExperimentDate(f)[1].date, secs |-> 0])
                ELSE None

\* start_date is unset, the experiment started within a day, and the
\* project resolved to the midnight of that day; end_date is set and won
\* over the experiment's.
C10_Witness ==
    /\ ProjectResolved
    /\ projIn.start_date = None /\ projIn.end_date = Some("2022-02-01")
    /\ projExp # None
    /\ projExp[1].start_date = Some([date |-> "2022-01-01", secs |-> 3600])
    /\ projExp[1].end_date # None
    /\ projOut.val.start_date = Some([date |-> "2022-01-01", secs |-> 0])
    /\ projOut.val.end_date = Some([date |-> "2022-02-01", secs |-> 0])

----------------------------------------------------------------------------
(* Specification of PopulationSpec.resolve within ProjectSpec.resolve *)

OwnPrefs == {None, Some(""), Some("own.pref")}
OwnChannels == {None, Some("beta")}
OwnBranches == {None, Some(<<>>), Some(<<"enabled">>)}

\* Experiments and rollouts, with and without a pref, a channel and branches.
PopulationExperiments ==
    {None} \cup
    {Some([Exp1 EXCEPT !.boolean_pref = bp, !.channel = ch, !.branches = br,
                       !.is_rollout = ro]) :
        bp \in {None, Some("pref")}, ch \in {None, Some("release")},
        br \in {<<>>, <<"control", "treatment">>}, ro \in BOOLEAN}

InitPopulation ==
    /\ \E bp \in OwnPrefs, ch \in OwnChannels, br \in OwnBranches :
        projIn = [ProjectSpec EXCEPT !.population.boolean_pref = bp,
                                     !.population.channel = ch,
                                     !.population.branches = br]
    /\ projExp \in PopulationExperiments
    /\ projOut = NotCalled
    /\ MainIdleState
    /\ AlertIdleState
    /\ CallIdleState
    /\ RunIdleState
    /\ IoIdleState

SpecPopulation == InitPopulation /\ [][NextProject]_vars

\* The population the project resolved with, and the one it was given.
PopOut == projOut.val.population
PopIn == projIn.population

\* An experiment that is not a rollout was supplied.
NonRolloutExperiment == projExp # None /\ ~projExp[1].is_rollout

\* C11: when the spec's branches are unset (None), the resolved branches
\* are the experiment's branch slugs, in experiment order, only when an
\* experiment is supplied, the spec's boolean_pref is unset (None) and the
\* experiment is not a rollout, and the empty list in every other case;
\* when the spec sets branches, even to an empty list, the resolved
\* branches are exactly the spec's.
C11_BranchesDefault ==
    ProjectResolved =>
        /\ projOut.ok
        /\ PopIn.branches # None => PopOut.branches = PopIn.branches[1]
        /\ (PopIn.branches = None /\ NonRolloutExperiment
                /\ PopIn.boolean_pref = None)
            => PopOut.branches = projExp[1].branches
        /\ (PopIn.branches = None
                /\ ~(NonRolloutExperiment /\ PopIn.boolean_pref = None))
            => PopOut.branches = <<>>

\* Branches are unset, the spec has a boolean_pref and the experiment, not
\* a rollout, has branches: the resolved list is empty.
C11_Witness ==
    /\ ProjectResolved /\ projOut.ok
    /\ PopIn.branches = None /\ PopIn.boolean_pref = Some("own.pref")
    /\ NonRolloutExperiment
    /\ projExp[1].branches = <<"control", "treatment">>
    /\ PopOut.branches = <<>>

\* Branches and boolean_pref are unset and the experiment's slugs are taken.
C11_WitnessTaken ==
    /\ ProjectResolved /\ projOut.ok
    /\ PopIn.branches = None /\ PopIn.boolean_pref = None
    /\ NonRolloutExperiment
    /\ PopOut.branches = <<"control", "treatment">>

\* A field of the population counts as left unset when it is None or empty.
LeftUnset(v) == v = None \/ v = Some("")

\* The value the experiment has for field f, None without an experiment.
ExperimentValue(f) == IF projExp = None THEN None ELSE projExp[1][f]

\* The experiment is a rollout, or the spec specifies a boolean_pref
\* population.
RolloutOrPrefPopulation ==
    \/ projExp # None /\ projExp[1].is_rollout
    \/ ~LeftUnset(PopIn.boolean_pref)

\* C12 as stated: when the spec leaves boolean_pref or channel unset, the
\* resolved value is the experiment's value unless the experiment is a
\* rollout or the spec specifies a boolean_pref population, in which case
\* the field is not taken from the experiment.
C12_ExperimentFallbackOriginal ==
    ProjectResolved =>
        \A f \in {"boolean_pref", "channel"} :
            LeftUnset(PopIn[f]) =>
                PopOut[f] = IF RolloutOrPrefPopulation THEN None
                            ELSE ExperimentValue(f)

\* C12 (amended): a boolean_pref the spec leaves unset or empty resolves
\* to the experiment's boolean_pref unless the experiment is a rollout or
\* no experiment is supplied, when it resolves to None; a channel the spec
\* leaves unset resolves to the experiment's channel whenever an
\* experiment is supplied, rollout or not and whatever the spec's
\* boolean_pref, and to None without an experiment; a value the spec sets
\* is kept.
C12_ExperimentFallback ==
    ProjectResolved =>
        /\ projOut.ok
        /\ PopOut.boolean_pref =
              IF ~LeftUnset(PopIn.boolean_pref) THEN PopIn.boolean_pref
              ELSE IF NonRolloutExperiment THEN projExp[1].boolean_pref
              ELSE None
        /\ PopOut.channel =
              IF PopIn.channel # None THEN PopIn.channel
              ELSE ExperimentValue("channel")

\* A rollout with a pref and a channel resolves a spec that sets a
\* boolean_pref and no channel: the channel is the rollout's.
C12_Witness ==
    /\ ProjectResolved /\ projOut.ok
    /\ PopIn.channel = None /\ PopIn.boolean_pref = Some("own.pref")
    /\ projExp # None /\ projExp[1].is_rollout
    /\ projExp[1].channel = Some("release")
    /\ PopOut.channel = Some("release")
    /\ PopOut.boolean_pref = Some("own.pref")

----------------------------------------------------------------------------
(* Specification of merge and resolve on layers of project settings *)

\* The first document of test_overwrite_population.
BaseDoc ==
    [MonitoringSpec EXCEPT
        !.project.name = Some("foo"),
        !.project.xaxis = Some("build_id"),
        !.project.start_date = Some("2022-01-01"),
        !.project.end_date = Some("2022-02-01"),
        !.project.population.data_source = Some("foo"),
        !.project.population.boolean_pref = Some("TRUE"),
        !.project.population.branches = Some(<<"treatment">>),
        !.project.population.dimensions = <<"os">>,
        !.project.population.group_by_dimension = Some("os"),
        !.data_sources = DictOf({DataSourceDefinition("foo", "test")}),
        !.dimensions = DictOf({DimensionDefinition("os", "os", "foo")})]

\* The second document of test_overwrite_population.
OverrideDoc ==
    [MonitoringSpec EXCEPT
        !.project.name = Some("foo bar"),
        !.project.end_date = Some("2022-03-01"),
        !.project.skip_default_metrics = TRUE,
        !.project.population.boolean_pref = Some("FALSE"),
        !.project.population.branches = Some(<<"test-1">>)]

\* The documents of test_overwrite_population and variations of them.
ProjectDocs == <<
    BaseDoc,
    OverrideDoc,
    \* the base without branches
    [BaseDoc EXCEPT !.project.population.branches = None],
    \* an empty list of branches, a second dimension and further settings
    [MonitoringSpec EXCEPT
        !.project.platform = Some("fenix"),
        !.project.skip = TRUE,
        !.project.population.channel = Some("beta"),
        !.project.population.branches = Some(<<>>),
        !.project.population.dimensions = <<"os", "country">>,
        !.project.population.monitor_entire_population = TRUE,
        !.data_sources = DictOf({DataSourceDefinition("foo", "test"),
                                 DataSourceDefinition("bar", "test2")}),
        !.dimensions = DictOf({DimensionDefinition("os", "os", "foo"),
                               DimensionDefinition("country", "c", "bar")})],
    \* {}
    MonitoringSpec,
    \* settings without a name or branches
    [MonitoringSpec EXCEPT
        !.project.xaxis = Some("submission_date"),
        !.project.compact_visualization = TRUE,
        !.project.population.data_source = Some("bar"),
        !.project.population.channel = Some("nightly"),
        !.data_sources = DictOf({DataSourceDefinition("bar", "test3")})]
    >>

AllDocs == Docs \o ProjectDocs
ProjectDocIds == (Len(Docs) + 1)..Len(AllDocs)

InitLayers ==
    /\ docOf \in [SpecIds -> ProjectDocIds]
    /\ specs = [i \in SpecIds |-> FromDict(i, AllDocs[docOf[i]])]
    /\ heap = [o \in {} |-> AlertIdle]
    /\ last = [op |-> "init", layer |-> "", experiment |-> None]
    /\ merged = <<>>
    /\ nResolves = 0
    /\ outcome = <<>>
    /\ AlertIdleState
    /\ ProjIdleState
    /\ CallIdleState
    /\ RunIdleState
    /\ IoIdleState

SpecLayers == InitLayers /\ [][Next]_vars

\* The project settings of the k-th layer of the stack as its document
\* gives them; layer 1 is the base, the later ones override it in order.
LayerProject(k) == AllDocs[docOf[Stack[k]]].project

\* The value the last layer that sets a field gives it, None if no layer
\* sets it; Get reads the field (an Optional) from the project settings.
LastSet(Get(_)) ==
    LET idx == {k \in 1..Len(Stack) : Get(LayerProject(k)) # None}
    IN  IF idx = {} THEN None
        ELSE Get(LayerProject(CHOOSE k \in idx : \A j \in idx : j <= k))

\* The branches of the first layer that sets them, None if none does.
FirstBranches ==
    LET idx == {k \in 1..Len(Stack) :
                    LayerProject(k).population.branches # None}
    IN  IF idx = {} THEN None
        ELSE LayerProject(CHOOSE k \in idx : \A j \in idx : k <= j)
                .population.branches

\* Some layer sets the flag f of the project settings to true.
FlagSet(f) == \E k \in 1..Len(Stack) : LayerProject(k)[f]

\* A configuration has just been resolved from the merged layers.
LayersResolved == JustResolved /\ LastOutcome.ok

TextFields == {"name", "platform", "xaxis"}
DateFields == {"start_date", "end_date"}

C13_WitnessOverrideBranches ==
    /\ LayersResolved
    /\ docOf["target"] = Len(Docs) + 3
    /\ Len(Stack) = 2 /\ docOf[Stack[2]] = Len(Docs) + 2
    /\ LastOutcome.val.project.population.branches = <<"test-1">>

\* The fields of a PopulationSpec other than the dimensions list.
PopulationFields ==
    {"data_source", "boolean_pref", "channel", "branches",
     "monitor_entire_population", "group_by_dimension"}

\* Field f of population p is set: true for the flag, not None otherwise.
PopulationFieldSet(p, f) ==
    IF f = "monitor_entire_population" THEN p[f] ELSE p[f] # None

\* C14: PopulationSpec.merge(other) overwrites existing keys: every field
\* (the dimensions list aside) that both self and other set holds other's
\* value after the merge.
C14_OtherOverwrites ==
    [][\A l \in LayerIds : MergeStep(l) =>
        \A f \in PopulationFields :
            (/\ PopulationFieldSet(Target.project.population, f)
             /\ PopulationFieldSet(specs[l].project.population, f))
            => Target'.project.population[f] = specs[l].project.population[f]
      ]_vars

\* C15: MonitoringSpec.merge(None) is a no-op: the project, the
\* data_sources, metrics, dimensions and alerts tables (and the alert
\* definitions they hold) and the resolved flag of the spec are unchanged,
\* as is every other spec, so what later merges and resolve give is the
\* same as without the call.
C15_MergeNoneNoOp ==
    [][last'.op = "mergeNone" => specs' = specs /\ heap' = heap]_vars

\* merge(None) was called on a resolved target that holds merged
\* definitions, alerts among them.
C15_Witness ==
    /\ last.op = "mergeNone"
    /\ Len(Stack) = 2
    /\ Target.resolved
    /\ Target.alerts # EmptyDict /\ Target.metrics # EmptyDict
    /\ Target.project.metrics # <<>>

----------------------------------------------------------------------------
(* Specification of MetricDefinition.resolve *)

MaxStatistics == 2

\* Statistic names a configuration may give: two that exist and one that
\* does not.
StatisticNames == {"sum", "mean", "bogus"}

\* The key sequences of a statistics mapping: distinct names in
\* declaration order.
StatisticsMappings ==
    UNION {{q \in [1..n -> StatisticNames] :
                \A i, j \in 1..n : i # j => q[i] # q[j]} : n \in 0..MaxStatistics}

MainIdleMetric ==
    /\ MainIdleState /\ AlertIdleState /\ ProjIdleState /\ RunIdleState
    /\ IoIdleState
    /\ runnableIn = <<>> /\ runnableOut = NotCalled

InitMetric ==
    /\ \E ds \in {"foo", "nods"}, ty \in {None, Some("histogram")},
          st \in {None} \cup {Some(q) : q \in StatisticsMappings},
          tbl \in {EmptyDict, DictOf({DataSourceDefinition("foo", "eggs")})} :
        metricIn = [definition |->
                        [MetricDefinition("test", "SELECT 1", ds, st)
                            EXCEPT !.type = ty],
                    spec |-> [MonitoringSpec EXCEPT !.data_sources = tbl]]
    /\ metricOut = NotCalled
    /\ MainIdleMetric

\* metricIn.definition.resolve(metricIn.spec)
ResolveMetric ==
    /\ metricOut = NotCalled
    /\ metricOut' = MetricDefinitionResolve(metricIn.definition, metricIn.spec)
    /\ UNCHANGED <<metricIn, runnableIn, runnableOut, mainVars, alertVars,
                   projVars, runVars, ioVars>>

NextMetric == ResolveMetric

SpecMetric == InitMetric /\ [][NextMetric]_vars

MetricResolved == metricOut # NotCalled

\* The statistic names of the definition, none when statistics is None.
StatisticsOf(d) == IF d.statistics = None THEN <<>> ELSE d.statistics[1]

\* C16: MetricDefinition.resolve emits exactly one Summary per entry of
\* the statistics mapping, in declaration order, each pairing a Metric
\* built from the definition, its data source resolved against the given
\* spec, with the statistic of that name; it raises ValueError if any
\* statistic name is not a known statistic or if the data source is
\* undefined, and emits no Summary when the statistics mapping is empty.
C16_SummaryPerStatistic ==
    MetricResolved =>
        LET d == metricIn.definition
            st == StatisticsOf(d)
            undefined == d.data_source \notin DOMAIN metricIn.spec.data_sources
            unknown == \E i \in 1..Len(st) : st[i] \notin KnownStatistics
        IN  /\ (undefined \/ unknown)
                => ~metricOut.ok /\ ExcClass(metricOut.err.msg) = "ValueError"
            /\ ~(undefined \/ unknown)
                => /\ metricOut.ok
                   /\ Len(metricOut.val) = Len(st)
                   /\ \A i \in 1..Len(st) :
                        /\ metricOut.val[i].statistic = st[i]
                        /\ metricOut.val[i].metric.name = d.name
                        /\ metricOut.val[i].metric.select_expression
                                = d.select_expression
                        /\ metricOut.val[i].metric.data_source
                                = metricIn.spec.data_sources[d.data_source]

----------------------------------------------------------------------------
(* Specification of the per-project specs of the `run` command: for each  *)
(* project a deep copy of the platform definitions, into which the shared *)
(* platform defaults and then the project's own spec are merged, and      *)
(* which is then resolved.                                                *)

ProjectIds == {"p1", "p2"}

\* The spec of the project's own configuration file.
OwnOf == [p \in ProjectIds |-> IF p = "p1" THEN "own1" ELSE "own2"]

RunSpecIds == ProjectIds \cup {"defaults"} \cup {OwnOf[p] : p \in ProjectIds}

\* The document of the platform definitions, and the documents the
\* platform defaults and the projects' own files are drawn from (indices
\* of Docs).
PlatformDoc == 2
DefaultDocs == {1, 2, 7}
OwnDocs == {1, 3, 4, 5, 7}

\* The AlertDefinition objects the specs ids build from the documents d.
InitialHeap(ids, d) ==
    [o \in UNION {{ObjId(i, n) : n \in DOMAIN Docs[d[i]].alerts} : i \in ids}
        |-> Docs[d[o[1]]].alerts[o[2]]]

\* Every project starts from its own deep copy of the platform
\* definitions; the defaults and the own specs are built once.
InitProjects ==
    /\ docOf \in [RunSpecIds -> DocIds]
    /\ \A p \in ProjectIds : docOf[p] = PlatformDoc /\ docOf[OwnOf[p]] \in OwnDocs
    /\ docOf["defaults"] \in DefaultDocs
    /\ specs = [i \in RunSpecIds |-> FromDict(i, Docs[docOf[i]])]
    /\ heap = InitialHeap(RunSpecIds, docOf)
    /\ last = [op |-> "init", layer |-> "", experiment |-> None]
    /\ merged = <<>>
    /\ nResolves = 0
    /\ outcome = <<>>
    /\ AlertIdleState
    /\ ProjIdleState
    /\ CallIdleState

\* ss[p].merge(ss[l]) on the specs ss and the heap h: the specs after it,
\* and the heap after it.
SpecsAfterMerge(ss, p, l) ==
    [ss EXCEPT ![p] = MergeOptional(ss[p], Some(ss[l]))]
HeapAfterMerge(ss, h, p, l) == AlertsMergeHeap(ss[p].alerts, ss[l].alerts, h)

\* The steps of a project's task, in order.
TaskSteps == <<"merge_defaults", "merge_own", "resolve", "done">>

\* What building project p alone gives: the defaults and then the own
\* spec merged into the copy, on the specs and objects as first built.
AloneSpecs(p) ==
    LET ss0 == [i \in RunSpecIds |-> FromDict(i, Docs[docOf[i]])]
        h0 == InitialHeap(RunSpecIds, docOf)
        ss1 == SpecsAfterMerge(ss0, p, "defaults")
        h1 == HeapAfterMerge(ss0, h0, p, "defaults")
    IN  [specs |-> SpecsAfterMerge(ss1, p, OwnOf[p]),
         heap |-> HeapAfterMerge(ss1, h1, p, OwnOf[p])]

Alone(p) == MonitoringSpecResolve(AloneSpecs(p).specs[p], AloneSpecs(p).heap, None)

InitConcurrent ==
    /\ InitProjects
    /\ pc = [p \in ProjectIds |-> 1]
    /\ configs = [p \in ProjectIds |-> NotCalled]
    /\ IoIdleState

\* Project p's task merges the shared defaults into its spec.
MergeDefaults(p) ==
    /\ TaskSteps[pc[p]] = "merge_defaults"
    /\ specs' = SpecsAfterMerge(specs, p, "defaults")
    /\ heap' = HeapAfterMerge(specs, heap, p, "defaults")
    /\ pc' = [pc EXCEPT ![p] = @ + 1]
    /\ UNCHANGED <<docOf, last, merged, nResolves, outcome, configs,
                   alertVars, projVars, callVars, ioVars>>

\* Project p's task merges the project's own spec into its spec.
MergeOwn(p) ==
    /\ TaskSteps[pc[p]] = "merge_own"
    /\ specs' = SpecsAfterMerge(specs, p, OwnOf[p])
    /\ heap' = HeapAfterMerge(specs, heap, p, OwnOf[p])
    /\ pc' = [pc EXCEPT ![p] = @ + 1]
    /\ UNCHANGED <<docOf, last, merged, nResolves, outcome, configs,
                   alertVars, projVars, callVars, ioVars>>

\* Project p's task resolves its spec.
ResolveTask(p) ==
    /\ TaskSteps[pc[p]] = "resolve"
    /\ \E r \in MonitoringSpecResolve(specs[p], heap, None) :
        /\ configs' = [configs EXCEPT ![p] = r]
        /\ specs' = [specs EXCEPT ![p] = SpecAfterResolve(specs[p], r)]
    /\ pc' = [pc EXCEPT ![p] = @ + 1]
    /\ UNCHANGED <<heap, docOf, last, merged, nResolves, outcome,
                   alertVars, projVars, callVars, ioVars>>

NextConcurrent ==
    \E p \in ProjectIds : MergeDefaults(p) \/ MergeOwn(p) \/ ResolveTask(p)

SpecConcurrent == InitConcurrent /\ [][NextConcurrent]_vars

\* C18: when each project gets its own MonitoringSpec (a deep copy of the
\* platform definitions, then merge of the shared default spec, then merge
\* of the project's own spec, then resolve), any interleaving of two
\* projects' merge and resolve steps gives each project a result that
\* building that project alone can give.
C18_IndependentSpecs ==
    \A p \in ProjectIds :
        TaskSteps[pc[p]] = "done" => configs[p] \in Alone(p)

----------------------------------------------------------------------------
(* Specification of the `run` command: the loop that resolves a config    *)
(* per project, the date filter and the pool that runs the projects.      *)

\* The order of ConfigLoader.configs.configs.
ProjectOrder == <<"p1", "p2">>

\* Calendar days in order; each date of RunDates is preceded by its eve.
Days == <<"2021-12-31", "2022-01-01", "2022-01-31", "2022-02-01",
          "2022-02-28", "2022-03-01">>
DayIndex(date) == CHOOSE i \in 1..Len(Days) : Days[i] = date
RunDates == {"2022-01-01", "2022-02-01"}

\* a < b and a <= b on datetimes.
Before(a, b) ==
    \/ DayIndex(a.date) < DayIndex(b.date)
    \/ a.date = b.date /\ a.secs < b.secs
NotAfter(a, b) == a = b \/ Before(a, b)

\* date - timedelta(days=1), for a date of RunDates at midnight.
PriorDate(date) == [date |-> Days[DayIndex(date) - 1], secs |-> 0]

InitRun ==
    /\ InitProjects
    /\ \E date \in RunDates :
        pc = [at |-> "loop", i |-> 1, date |-> date, ran |-> {}]
    /\ configs = <<>>
    /\ IoIdleState

\* One pass of the loop over the external configs, for project p: the spec
\* is built from a copy of the platform definitions, the platform defaults
\* are merged unless the project skips them, the project's spec is merged
\* and the result resolved with the project's experiment.  Nothing catches
\* what merge or resolve raise: the exception leaves `run`.
ResolveNextProject ==
    /\ pc.at = "loop" /\ pc.i <= Len(ProjectOrder)
    /\ LET p == ProjectOrder[pc.i]
           own == OwnOf[p]
           defaulted == ~specs[own].project.skip_default_metrics
           ss1 == IF defaulted THEN SpecsAfterMerge(specs, p, "defaults")
                  ELSE specs
           h1 == IF defaulted THEN HeapAfterMerge(specs, heap, p, "defaults")
                 ELSE heap
           ss2 == SpecsAfterMerge(ss1, p, own)
           h2 == HeapAfterMerge(ss1, h1, p, own)
       IN  /\ heap' = h2
           /\ \E r \in MonitoringSpecResolve(ss2[p], h2, Some(Exp1)) :
                /\ specs' = [ss2 EXCEPT ![p] = SpecAfterResolve(ss2[p], r)]
                /\ IF r.ok
                   THEN /\ configs' = Append(configs, <<p, r.val>>)
                        /\ pc' = [pc EXCEPT !.i = @ + 1]
                   ELSE /\ configs' = configs
                        /\ pc' = [pc EXCEPT !.at = "aborted"]
    /\ UNCHANGED <<docOf, last, merged, nResolves, outcome,
                   alertVars, projVars, callVars, ioVars>>

\* A config passes the filter: the project has started by the day before
\* the run date, has not ended before it and is not skipped.
Runnable(cfg, prior_date) ==
    /\ cfg.project.start_date # None
    /\ NotAfter(cfg.project.start_date[1], prior_date)
    /\ cfg.project.end_date = None
        \/ NotAfter(prior_date, cfg.project.end_date[1])
    /\ ~cfg.project.skip

\* The loop is over: projects that have finished or not started are
\* filtered out.
FilterConfigs ==
    /\ pc.at = "loop" /\ pc.i > Len(ProjectOrder)
    /\ configs' = SelectSeq(configs,
                            LAMBDA c : Runnable(c[2], PriorDate(pc.date)))
    /\ pc' = [pc EXCEPT !.at = "pool"]
    /\ UNCHANGED <<mainVars, alertVars, projVars, callVars, ioVars>>

\* pool.map(run, configs): every remaining config is run.
PoolMap ==
    /\ pc.at = "pool"
    /\ pc' = [pc EXCEPT !.at = "done",
                        !.ran = {configs[k][1] : k \in 1..Len(configs)}]
    /\ UNCHANGED <<configs, mainVars, alertVars, projVars, callVars, ioVars>>

NextRun == ResolveNextProject \/ FilterConfigs \/ PoolMap

SpecRun == InitRun /\ [][NextRun]_vars

\* The command has ended, by exit or by an exception.
RunEnded == pc.at \in {"done", "aborted"}

\* C17: a configuration error raised while merging or resolving one
\* project's spec never aborts the batch: when the command ends, the loop
\* has gone through every project, and every project whose spec resolved
\* and that is due on the run date has been run.
C17_BatchNeverAborted ==
    RunEnded =>
        /\ pc.at = "done"
        /\ pc.i > Len(ProjectOrder)
        /\ \A k \in 1..Len(configs) : configs[k][1] \in pc.ran

\* C19: MonitoringSpec.resolve has no side effect on the spec other than
\* setting the resolved flag: the project spec with its metrics, alerts
\* and dimensions reference lists and the data_sources, metrics,
\* dimensions and alerts tables, with the alert definitions they hold, are
\* the same after resolve as before, whether resolve returns or raises;
\* no other spec changes either.
C19_ResolveFrame ==
    [][last'.op = "resolve" =>
        /\ heap' = heap
        /\ \A i \in LayerIds : specs'[i] = specs[i]
        /\ \A f \in DOMAIN Target \ {"resolved"} : Target'[f] = Target[f]
        /\ Target.resolved => Target'.resolved
      ]_vars

\* A first resolve returned a configuration and a second one raised, on a
\* target with merged definitions, alerts and references.
C19_Witness ==
    /\ JustResolved /\ Len(outcome) = 2
    /\ outcome[1].ok /\ ~outcome[2].ok
    /\ Target.resolved
    /\ Target.metrics # EmptyDict /\ Target.alerts # EmptyDict
    /\ Target.project.metrics # <<>> /\ Target.project.alerts # <<>>

----------------------------------------------------------------------------
(* Specification of Monitoring._check_runnable *)

\* The project ended on or before the current date counted as ended.
CheckRunnableEndingOnTheDay(project, current_date) ==
    IF project = None THEN Raise("ConfigurationException", "")
    ELSE IF project[1].start_date = None
    THEN Raise("NoStartDateException", "")
    ELSE IF /\ current_date # None
            /\ project[1].end_date # None
            /\ NotAfter(project[1].end_date[1], current_date[1])
    THEN Raise("EndedException", "")
    ELSE Ok(TRUE)

\* Monitoring._check_runnable(current_date) on a Monitoring whose
\* config.project is project; a datetime is always truthy.
CheckRunnable(project, current_date) ==
    IF project = None THEN Raise("ConfigurationException", "")
    ELSE IF project[1].start_date = None
    THEN Raise("NoStartDateException", "")
    ELSE IF /\ current_date # None
            /\ project[1].end_date # None
            /\ Before(project[1].end_date[1], current_date[1])
    THEN Raise("EndedException", "")
    ELSE Ok(TRUE)

\* The dates of test_check_runnable and a later one, at midnight UTC, and
\* None.
ProjectDates ==
    {None} \cup {Some([date |-> d, secs |-> 0]) :
                    d \in {"2022-01-01", "2022-02-01", "2022-03-01"}}

\* The current dates of test_check_runnable, one more within a day, and None.
CurrentDates ==
    {None} \cup {Some([date |-> d, secs |-> t]) :
                    d \in {"2022-01-01", "2022-02-01"}, t \in {0, 3600}}

InitRunnable ==
    /\ \E pr \in {None} \cup
                 {Some([ProjectSpecResolve(ProjectSpec, MonitoringSpec, None).val
                            EXCEPT !.start_date = sd, !.end_date = ed]) :
                     sd \in ProjectDates, ed \in ProjectDates},
          cur \in CurrentDates :
        runnableIn = [project |-> pr, current_date |-> cur]
    /\ runnableOut = NotCalled
    /\ metricIn = <<>> /\ metricOut = NotCalled
    /\ MainIdleState /\ AlertIdleState /\ ProjIdleState /\ RunIdleState
    /\ IoIdleState

CheckRunnableCall ==
    /\ runnableOut = NotCalled
    /\ runnableOut' = CheckRunnable(runnableIn.project, runnableIn.current_date)
    /\ UNCHANGED <<runnableIn, metricIn, metricOut, mainVars, alertVars,
                   projVars, runVars, ioVars>>

NextRunnable == CheckRunnableCall

SpecRunnable == InitRunnable /\ [][NextRunnable]_vars

RunnableChecked == runnableOut # NotCalled

\* current_date and end_date are both set and end_date < current_date.
EndedBefore ==
    /\ runnableIn.current_date # None
    /\ runnableIn.project[1].end_date # None
    /\ Before(runnableIn.project[1].end_date[1], runnableIn.current_date[1])

\* C20: Monitoring._check_runnable(current_date) raises
\* ConfigurationException when the configuration has no project; otherwise
\* NoStartDateException when the project's start_date is unset; otherwise
\* EndedException when current_date and end_date are both set and
\* end_date < current_date; and returns True in every other case, in
\* particular when end_date equals current_date or end_date is unset.
C20_CheckRunnable ==
    RunnableChecked =>
        IF runnableIn.project = None
        THEN ~runnableOut.ok /\ runnableOut.err.msg = "ConfigurationException"
        ELSE IF runnableIn.project[1].start_date = None
        THEN ~runnableOut.ok /\ runnableOut.err.msg = "NoStartDateException"
        ELSE IF EndedBefore
        THEN ~runnableOut.ok /\ runnableOut.err.msg = "EndedException"
        ELSE runnableOut.ok /\ runnableOut.val = TRUE

\* The project ends on the current date and the check returns True.
C20_Witness ==
    /\ RunnableChecked
    /\ runnableIn.project # None /\ runnableIn.current_date # None
    /\ runnableIn.project[1].start_date # None
    /\ runnableIn.project[1].end_date = runnableIn.current_date
    /\ runnableOut.ok /\ runnableOut.val = TRUE

\* The project ended before the current date and EndedException is raised.
C20_WitnessEnded ==
    /\ RunnableChecked
    /\ runnableIn.project # None /\ runnableIn.project[1].start_date # None
    /\ EndedBefore
    /\ runnableOut.err.msg = "EndedException"

----------------------------------------------------------------------------
(* Specification of the order of resolution: documents whose references  *)
(* and whose group-by dimension fail in different steps of resolve       *)

GoodDefinitions ==
    [MonitoringSpec EXCEPT
        !.data_sources = DictOf({DataSourceDefinition("foo", "test")}),
        !.metrics = DictOf({MetricDefinition("test", "SELECT 1", "foo", Some(<<"sum">>))}),
        !.dimensions = DictOf({DimensionDefinition("os", "os", "foo")})]

OrderDocs == <<
    \* 1: {}
    MonitoringSpec,
    \* 2: an undefined metric next to a metric with an unknown statistic,
    \*    and a group-by dimension that is not listed
    [GoodDefinitions EXCEPT
        !.metrics = DictOf({MetricDefinition("test", "SELECT 1", "foo", Some(<<"bogus">>))}),
        !.project.metrics = <<"test", "missing">>,
        !.project.population.data_source = Some("foo"),
        !.project.population.group_by_dimension = Some("os")],
    \* 3: an undefined metric and a group-by dimension that is not listed
    [GoodDefinitions EXCEPT
        !.project.metrics = <<"missing">>,
        !.project.population.data_source = Some("foo"),
        !.project.population.group_by_dimension = Some("os")],
    \* 4: the group-by dimension is listed and defined
    [GoodDefinitions EXCEPT
        !.project.metrics = <<"test">>,
        !.project.population.data_source = Some("foo"),
        !.project.population.dimensions = <<"os">>,
        !.project.population.group_by_dimension = Some("os")],
    \* 5: only the group-by dimension is wrong (test_group_by_fail)
    [GoodDefinitions EXCEPT
        !.project.population.data_source = Some("foo"),
        !.project.population.group_by_dimension = Some("os")],
    \* 6: an undefined alert; the group-by dimension is listed but undefined
    [MonitoringSpec EXCEPT
        !.project.alerts = <<"noalert">>,
        !.project.population.dimensions = <<"nodim">>,
        !.project.population.group_by_dimension = Some("nodim")]
    >>

InitOrder ==
    /\ docOf \in [SpecIds -> 1..Len(OrderDocs)]
    /\ specs = [i \in SpecIds |-> FromDict(i, OrderDocs[docOf[i]])]
    /\ heap = <<>>
    /\ last = [op |-> "init", layer |-> "", experiment |-> None]
    /\ merged = <<>>
    /\ nResolves = 0
    /\ outcome = <<>>
    /\ AlertIdleState
    /\ ProjIdleState
    /\ CallIdleState
    /\ RunIdleState
    /\ IoIdleState

SpecOrder == InitOrder /\ [][Next]_vars

\* The target's group-by dimension is set and its dimensions list omits it.
GroupByUnlisted ==
    /\ Target.project.population.group_by_dimension # None
    /\ ~GroupByListed(Target.project.population)

\* A configuration was returned and its group-by dimension is the one the
\* target names, listed in the dimensions and defined.
GroupByResolved ==
    LET p == Target.project.population
        gb == p.group_by_dimension
    IN  gb # None =>
          /\ GroupByListed(p)
          /\ gb[1] \in DOMAIN Target.dimensions
          /\ LastOutcome.val.project.population.group_by_dimension # None
          /\ LastOutcome.val.project.population.group_by_dimension[1].name = gb[1]

\* C21 as stated: the project (and the population's group-by containment
\* check) is resolved only after the referenced metrics, dimensions and
\* alerts: when the spec has both an undefined reference and an unlisted
\* group_by_dimension the error raised is the undefined-reference error,
\* and a group_by_dimension that passes the check names a defined dimension.
C21_ReferenceErrorFirstOriginal ==
    FirstResolve =>
        /\ (AnyMissing /\ GroupByUnlisted) =>
              ~LastOutcome.ok /\ NamesMissingReference(LastOutcome.err)
        /\ LastOutcome.err.msg = "GroupByNotListed" => ~AnyMissing
        /\ LastOutcome.ok => GroupByResolved

\* C21 (amended): the project is resolved only after the referenced
\* metrics, dimensions and alerts: when the spec has both an undefined
\* reference and an unlisted group_by_dimension, the error raised is never
\* the group-by error; it is the undefined-reference error, or the error of
\* a referenced definition whose own resolution failed first; the group-by
\* error is raised only when every reference is defined, and a
\* group_by_dimension that passes the check names a defined dimension.
C21_ProjectResolvedLast ==
    FirstResolve =>
        /\ (AnyMissing /\ GroupByUnlisted) =>
              /\ ~LastOutcome.ok
              /\ \/ NamesMissingReference(LastOutcome.err)
                 \/ LastOutcome.err.msg \in DefinitionErrors
        /\ LastOutcome.err.msg = "GroupByNotListed" => ~AnyMissing
        /\ LastOutcome.ok => GroupByResolved

\* An undefined metric and an unlisted group-by dimension, merged from two
\* layers: resolve raised "No definition for metric missing."
C21_Witness ==
    /\ FirstResolve
    /\ Len(merged) > 0
    /\ MissingMetrics = {"missing"}
    /\ GroupByUnlisted
    /\ LastOutcome = Raise("NoDefinitionForMetric", "missing")

\* Every reference is defined and the group-by error is raised.
C21_WitnessGroupBy ==
    /\ FirstResolve
    /\ ~AnyMissing
    /\ GroupByUnlisted
    /\ LastOutcome = Raise("GroupByNotListed", "os")

----------------------------------------------------------------------------
(* The place of the _resolved assignment in MonitoringSpec.resolve *)

\* C22 as stated: marking the spec as resolved is the final step of
\* resolve, after the metrics, dimensions, alerts and project have been
\* resolved and immediately before the configuration is returned: a spec is
\* marked only when a call has returned a configuration.
C22_MarkedLastOriginal ==
    Target.resolved => \E k \in 1..Len(outcome) : outcome[k].ok

\* C22 (amended): marking the spec as resolved is the first step after the
\* single-use guard, before any metric, dimension, alert or the project is
\* resolved: the spec is marked as soon as one call has been made, whether
\* it returned or raised, and the configuration is returned, as the final
\* step, only when every reference and the project have been resolved.
C22_MarkedFirst ==
    /\ Target.resolved <=> Len(outcome) > 0
    /\ FirstResolve /\ LastOutcome.ok =>
          /\ ~AnyMissing
          /\ LastOutcome.val.project =
               ProjectSpecResolve(Target.project, Target, last.experiment).val

\* The first call raised in its last step, the project's, and the spec is
\* marked as resolved.
C22_Witness ==
    /\ FirstResolve
    /\ LastOutcome = Raise("GroupByNotListed", "os")
    /\ Target.resolved

----------------------------------------------------------------------------
(* Specification of AlertDefinition.resolve on constructed alerts *)

\* The lists over S of every length up to MaxListLen.
ListsOver(S) == UNION {[1..k -> S] : k \in 0..MaxListLen}

\* Alerts whose metric references repeat names or name a metric nobody
\* defines, with and without a statistics allow-list.
ResolvableAlerts ==
    {[AlertDefinition("x", "ci_overlap", ms) EXCEPT !.statistics = st] :
        ms \in ListsOver({"test", "test2", "nometric"}),
        st \in {None} \cup {Some(l) : l \in ListsOver({"sum", "bogus"})}}

\* The documents the alert is resolved against: two with definitions that
\* resolve, one with definitions that do not.
AlertSpecDocs == {2, 3, 9}

InitAlertResolve ==
    /\ alertIn \in ResolvableAlerts
    /\ alertOut = NotCalled
    /\ \E d \in AlertSpecDocs :
        /\ docOf = [i \in SpecIds |-> d]
        /\ specs = [i \in SpecIds |-> FromDict(i, Docs[d])]
    /\ heap = EmptyDict
    /\ last = [op |-> "init", layer |-> "", experiment |-> None]
    /\ merged = <<>>
    /\ nResolves = 0
    /\ outcome = <<>>
    /\ ProjIdleState
    /\ CallIdleState
    /\ RunIdleState
    /\ IoIdleState

\* alertIn.resolve(spec) on the target spec.
ResolveAlert ==
    /\ alertOut = NotCalled
    /\ alertOut' \in AlertDefinitionResolutions(alertIn, specs["target"])
    /\ UNCHANGED <<alertIn, mainVars, projVars, callVars, runVars, ioVars>>

NextAlertResolve == ResolveAlert

SpecAlertResolve == InitAlertResolve /\ [][NextAlertResolve]_vars

AlertResolved == alertOut # NotCalled

C23_WitnessStatistic ==
    /\ AlertResolved
    /\ alertIn.metrics = <<"test">>
    /\ Target.project.metrics = <<>>
    /\ alertOut = Raise("AlertStatisticNotExist", "bogus")

\* The alert names a metric nobody defines: the metric error is raised.
C23_WitnessMetric ==
    /\ AlertResolved
    /\ alertOut = Raise("AlertNoDefinitionForMetric", "nometric")

----------------------------------------------------------------------------
(* The frame of merge: what a merge does to the specs handed to it *)

\* The AlertDefinition objects the layers built from their documents.
LayerObjects == {o \in DOMAIN heap : o[1] \in LayerIds}

\* C24: merge modifies only the receiving spec: over any sequence of
\* merges into the target, every spec handed in as `other`, and every
\* definition object it owns, keeps its field values, also when a later
\* layer redefines an alert an earlier layer brought into the target.
C24_MergeFrame ==
    [][(\E l \in LayerIds : MergeStep(l)) =>
        /\ \A l \in LayerIds : specs'[l] = specs[l]
        /\ \A o \in LayerObjects : heap'[o] = heap[o]]_vars

----------------------------------------------------------------------------
(* Specification of merges of layers that define one alert with           *)
(* different types                                                        *)

AlertMergeDocs == <<
    \* 1: {}
    MonitoringSpec,
    \* 2: x is a threshold alert (test_alert_definition)
    [MonitoringSpec EXCEPT !.alerts = DictOf({AlertX1})],
    \* 3: x is an avg_diff alert
    [MonitoringSpec EXCEPT
        !.alerts = DictOf({
            [AlertDefinition("x", "avg_diff", <<"test">>) EXCEPT
                !.window_size = Some(7), !.max_relative_change = Some(1)]})],
    \* 4: x is a ci_overlap alert
    [MonitoringSpec EXCEPT
        !.alerts = DictOf({AlertDefinition("x", "ci_overlap", <<"test">>)})]
    >>

InitAlertMerge ==
    /\ docOf \in [SpecIds -> 1..Len(AlertMergeDocs)]
    /\ specs = [i \in SpecIds |-> FromDict(i, AlertMergeDocs[docOf[i]])]
    /\ heap = [o \in {ObjId(i, "x") : i \in {j \in SpecIds : docOf[j] # 1}}
               |-> AlertMergeDocs[docOf[o[1]]].alerts[o[2]]]
    /\ last = [op |-> "init", layer |-> "", experiment |-> None]
    /\ merged = <<>>
    /\ nResolves = 0
    /\ outcome = <<>>
    /\ AlertIdleState
    /\ ProjIdleState
    /\ CallIdleState
    /\ RunIdleState
    /\ IoIdleState

SpecAlertMerge == InitAlertMerge /\ [][Next]_vars

\* C25: every AlertDefinition held in the alerts table of any spec, after
\* any merges, has the shape its type requires at construction.
C25_ShapeKept ==
    \A i \in SpecIds : \A n \in DOMAIN specs[i].alerts :
        Shape(heap[specs[i].alerts[n]])

----------------------------------------------------------------------------
(* The boolean flags of the project settings over merged layers *)

ProjectFlags == {"skip", "skip_default_metrics", "compact_visualization"}

\* Some layer sets monitor_entire_population to true.
EntirePopulationSet ==
    \E k \in 1..Len(Stack) : LayerProject(k).population.monitor_entire_population

----------------------------------------------------------------------------
(* Specification of retry_get: one GET per turn of the loop *)

MaxRetries == 3

\* What session.get(url).json() can do: return the decoded body, or raise
\* in the request (ConnectionError) or in the decoding (JSONDecodeError).
JsonBodies == {"[]", "[experiment]"}
GetFailures == {"ConnectionError", "JSONDecodeError"}

\* The URLs and the user agent from_experimenter passes, and no user agent.
ExperimenterUrls == {"api/v1/experiments/", "api/v6/experiments/"}
UserAgents == {None, Some(""), Some("opmon")}

InitRetry ==
    /\ \E url \in ExperimenterUrls, n \in 0..MaxRetries, ua \in UserAgents :
        frame = [url |-> url, max_retries |-> n, user_agent |-> ua,
                 i |-> 0, at |-> "loop", blob |-> None]
    /\ remote = [headers |-> Some("python-requests"), requests |-> <<>>]
    /\ MainIdleState /\ AlertIdleState /\ ProjIdleState
    /\ CallIdleState /\ RunIdleState

\* range(max_retries) yields one more item than the loop has had.
RetryLoopOnceMore(f) == f.i <= f.max_retries

\* range(max_retries) has another item for the loop.
RetryLoop(f) == f.i < f.max_retries

\* session.headers.update({"user-agent": user_agent}) under `if user_agent:`.
HeadersUpdate(headers, user_agent) ==
    IF user_agent # None /\ user_agent[1] # "" THEN user_agent ELSE headers

\* One turn of the loop: the GET is issued and answered with `answer`;
\* a decoded body ends the loop (break), a failure is logged and, after the
\* sleep, the loop goes on.
RetryGetTurn(answer) ==
    /\ frame.at = "loop"
    /\ RetryLoop(frame)
    /\ LET headers == HeadersUpdate(remote.headers, frame.user_agent)
       IN  remote' = [headers |-> headers,
                      requests |-> Append(remote.requests,
                                     [url |-> frame.url, user_agent |-> headers,
                                      answer |-> answer])]
    /\ frame' = IF answer \in JsonBodies
                THEN [frame EXCEPT !.at = "returned", !.blob = Some(answer)]
                ELSE [frame EXCEPT !.i = @ + 1]
    /\ UNCHANGED <<mainVars, alertVars, projVars, callVars, runVars>>

\* The loop ran out of turns without a break: the else branch raises
\* RetryLimitExceededException.
RetryLimitExceeded ==
    /\ frame.at = "loop"
    /\ ~RetryLoop(frame)
    /\ frame' = [frame EXCEPT !.at = "raised"]
    /\ UNCHANGED <<remote, mainVars, alertVars, projVars, callVars, runVars>>

NextRetry ==
    \/ \E answer \in JsonBodies \cup GetFailures : RetryGetTurn(answer)
    \/ RetryLimitExceeded

SpecRetry == InitRetry /\ [][NextRetry]_vars

\* The code is sequential and every GET is answered or fails: a turn that
\* can be taken is taken.
SpecRetryFair == SpecRetry /\ WF_vars(NextRetry)

\* The requests issued so far that failed.
FailedRequests ==
    {k \in 1..Len(remote.requests) : remote.requests[k].answer \in GetFailures}

RetryDone == frame.at \in {"returned", "raised"}

RetrySafety ==
    /\ Len(remote.requests) <= frame.max_retries
    /\ frame.at = "returned" =>
        LET n == Len(remote.requests)
        IN  /\ n >= 1
            /\ FailedRequests = 1..(n - 1)
            /\ frame.blob = Some(remote.requests[n].answer)
    /\ frame.at = "raised" =>
        /\ Len(remote.requests) = frame.max_retries
        /\ FailedRequests = 1..frame.max_retries
    /\ RetryDone =>
        (frame.at = "raised" <=>
            Cardinality(FailedRequests) = frame.max_retries)

\* C27: retry_get terminates; it issues at most max_retries GET requests,
\* returns the JSON of the first request that succeeds, none being issued
\* after it, and raises RetryLimitExceededException exactly when
\* max_retries requests have failed (none at all when max_retries is 0).
C27_RetryGetTerminates ==
    /\ []RetrySafety
    /\ [][RetryDone => UNCHANGED remote]_vars
    /\ <>RetryDone

\* Two requests failed and the third, the last one allowed, was answered:
\* its JSON is returned.
C27_Witness ==
    /\ frame # <<>> /\ "max_retries" \in DOMAIN frame
    /\ frame.max_retries = 3
    /\ frame.at = "returned"
    /\ Len(remote.requests) = 3
    /\ frame.blob = Some("[experiment]")

\* max_retries is 0: the exception is raised and no request was issued.
C27_WitnessNoRequest ==
    /\ frame # <<>> /\ "max_retries" \in DOMAIN frame
    /\ frame.max_retries = 0
    /\ frame.at = "raised"
    /\ remote.requests = <<>>

----------------------------------------------------------------------------
(* Specification of BigQueryClient.execute: one query job per step *)

MaxParts == 3

\* The queries handed to execute: a string, or a list of up to MaxParts parts.
QueryArguments ==
    {[list |-> FALSE, sql |-> <<"query">>]} \cup
    {[list |-> TRUE, sql |-> [i \in 1..n |-> <<"part", i - 1>>]] :
        n \in 0..MaxParts}

JoinKeyArguments == {None, Some(<<>>), Some(<<"client_id", "build_id">>)}

\* The anonymous table BigQuery gives the job of part idx as destination.
Destination(idx) == <<"anon", idx>>

\* What job.result() does for a submitted job.
JobAnswers == {"done", "failed"}

InitExecute ==
    /\ \E q \in QueryArguments, keys \in JoinKeyArguments,
          dest \in {None, Some("table$20220101")} :
        frame = [query |-> q, join_keys |-> keys, destination_table |-> dest,
                 idx |-> 0, parts |-> <<>>, at |-> "start", error |-> ""]
    /\ remote = [queries |-> <<>>, tables |-> {}]
    /\ MainIdleState /\ AlertIdleState /\ ProjIdleState
    /\ CallIdleState /\ RunIdleState

\* `if isinstance(query, list): if not join_keys: raise ValueError(...)`.
ExecuteStart ==
    /\ frame.at = "start"
    /\ frame' =
        IF ~frame.query.list THEN [frame EXCEPT !.at = "try"]
        ELSE IF ~TruthyList(frame.join_keys)
             THEN [frame EXCEPT !.at = "raised", !.error = "ValueError"]
             ELSE [frame EXCEPT !.at = "parts"]
    /\ UNCHANGED <<remote, mainVars, alertVars, projVars, callVars, runVars>>

\* One turn of the loop over the parts: the part is submitted as a job
\* whose result is awaited; a failed job raises out of execute, the loop
\* being outside the try statement.
SubmitPart(answer) ==
    /\ frame.at = "parts"
    /\ frame.idx < Len(frame.query.sql)
    /\ LET job == Destination(frame.idx)
       IN  /\ remote' =
                [queries |-> Append(remote.queries,
                                [sql |-> frame.query.sql[frame.idx + 1],
                                 destination |-> None]),
                 tables |-> IF answer = "done" THEN remote.tables \cup {job}
                            ELSE remote.tables]
           /\ frame' =
                IF answer = "done"
                THEN [frame EXCEPT !.idx = @ + 1, !.parts = Append(@, job)]
                ELSE [frame EXCEPT !.at = "raised", !.error = "GoogleAPIError"]
    /\ UNCHANGED <<mainVars, alertVars, projVars, callVars, runVars>>

\* The query redefined as a join over the destinations of the parts;
\* parts[0] of an empty list raises IndexError.
JoinParts ==
    /\ frame.at = "parts"
    /\ frame.idx = Len(frame.query.sql)
    /\ frame' =
        IF frame.parts = <<>>
        THEN [frame EXCEPT !.at = "raised", !.error = "IndexError"]
        ELSE [frame EXCEPT
                !.at = "try",
                !.query = [list |-> FALSE,
                           sql |-> <<"join", frame.parts, frame.join_keys[1]>>]]
    /\ UNCHANGED <<remote, mainVars, alertVars, projVars, callVars, runVars>>

\* The try statement: the query is submitted and awaited; finally the
\* destination of every job in parts is deleted.
TryQuery(answer) ==
    /\ frame.at = "try"
    /\ remote' =
        [queries |-> Append(remote.queries,
                        [sql |-> frame.query.sql,
                         destination |-> frame.destination_table]),
         tables |-> remote.tables \ Range(frame.parts)]
    /\ frame' =
        IF answer = "done" THEN [frame EXCEPT !.at = "returned"]
        ELSE [frame EXCEPT !.at = "raised", !.error = "GoogleAPIError"]
    /\ UNCHANGED <<mainVars, alertVars, projVars, callVars, runVars>>

NextExecute ==
    \/ ExecuteStart
    \/ \E answer \in JobAnswers : SubmitPart(answer)
    \/ JoinParts
    \/ \E answer \in JobAnswers : TryQuery(answer)

SpecExecute == InitExecute /\ [][NextExecute]_vars

ExecuteEnded == frame.at \in {"returned", "raised"}

\* C28: execute with a list of parts raises ValueError, before any query is
\* submitted, when no join keys are given; otherwise the parts are
\* submitted in order, then the join query; and when execute has returned
\* or raised, no destination table of a submitted part job is left.
C28_PartTablesDeleted ==
    /\ (frame.query.list /\ ~TruthyList(frame.join_keys) /\ frame.at # "start") =>
          /\ frame.at = "raised" /\ frame.error = "ValueError"
          /\ remote.queries = <<>>
    /\ \A k \in 1..Len(remote.queries) :
          \/ /\ remote.queries[k].sql[1] = "part"
             /\ remote.queries[k].sql[2] = k - 1
          \/ /\ k = Len(remote.queries)
             /\ remote.queries[k].sql[1] \in {"join", "query"}
    /\ ExecuteEnded => remote.tables = {}

----------------------------------------------------------------------------
(* Specification of Monitoring.run: one BigQuery execute per step *)

MaxAlerts == 2

\* The statements of run, _run_metrics_sql, _run_statistics_sql and
\* _run_sql_for_alerts that call bigquery.execute, with the views created
\* after all three tables.
RunOrderViewsLast ==
    <<"metrics_query", "statistics_query", "alerts_query",
      "metrics_view", "statistics_view", "alerts_view">>

\* The statements that call bigquery.execute, in the order of the code.
RunOrder ==
    <<"metrics_query", "metrics_view", "statistics_query", "statistics_view",
      "alerts_query", "alerts_view">>

\* The statement that follows step once its query has been executed.
StepAfter(step) ==
    LET k == CHOOSE j \in 1..Len(RunOrder) : RunOrder[j] = step
    IN  IF k < Len(RunOrder) THEN RunOrder[k + 1] ELSE "return"

\* The projects of a Monitoring's configuration, the dates it is run for
\* and the number of its alerts.
InitMonitoringRun ==
    /\ \E pr \in {None} \cup
                 {Some([ProjectSpecResolve(ProjectSpec, MonitoringSpec, None).val
                            EXCEPT !.start_date = sd, !.end_date = ed, !.skip = sk]) :
                     sd \in ProjectDates, ed \in ProjectDates, sk \in BOOLEAN},
          date \in CurrentDates \ {None}, n \in 0..MaxAlerts :
        frame = [project |-> pr, alerts |-> n, submission_date |-> date,
                 at |-> "run", result |-> None, error |-> ""]
    /\ remote = [queries |-> <<>>]
    /\ MainIdleState /\ AlertIdleState /\ ProjIdleState
    /\ CallIdleState /\ RunIdleState

\* What run returns: True, or None by a bare `return`.
Returned(f, value) == [f EXCEPT !.at = "returned", !.result = value]

\* bigquery.execute of the query of statement `step`, answered by `answer`:
\* an error leaves run, nothing in run catching it.
Execute(step, answer) ==
    /\ remote' = [queries |-> Append(remote.queries, step)]
    /\ frame' =
        IF answer # "done"
        THEN [frame EXCEPT !.at = "raised", !.error = "GoogleAPIError"]
        ELSE IF StepAfter(step) = "return" THEN Returned(frame, Some(TRUE))
        ELSE [frame EXCEPT !.at = StepAfter(step)]

\* The head of run: the skip flag, then _check_runnable under try/except.
RunStart ==
    /\ frame.at = "run"
    /\ frame' =
        IF frame.project = None
        THEN [frame EXCEPT !.at = "raised", !.error = "AttributeError"]
        ELSE IF frame.project[1].skip THEN Returned(frame, Some(TRUE))
        ELSE IF ~CheckRunnable(frame.project, frame.submission_date).ok
        THEN Returned(frame, None)
        ELSE [frame EXCEPT !.at = RunOrder[1]]
    /\ UNCHANGED <<remote, mainVars, alertVars, projVars, callVars, runVars>>

\* _run_metrics_sql: _check_runnable again, then the metrics query.
RunMetricsSql(answer) ==
    /\ frame.at = "metrics_query"
    /\ IF ~CheckRunnable(frame.project, frame.submission_date).ok
       THEN /\ frame' = [frame EXCEPT !.at = StepAfter("metrics_query")]
            /\ UNCHANGED remote
       ELSE Execute("metrics_query", answer)
    /\ UNCHANGED <<mainVars, alertVars, projVars, callVars, runVars>>

\* The execute calls of run itself and of _run_statistics_sql.
RunExecute(step, answer) ==
    /\ frame.at = step
    /\ Execute(step, answer)
    /\ UNCHANGED <<mainVars, alertVars, projVars, callVars, runVars>>

\* _run_sql_for_alerts up to its first execute: _check_runnable, the count
\* of the alerts, then the alerts query.
RunSqlForAlerts(answer) ==
    /\ frame.at = "alerts_query"
    /\ IF ~CheckRunnable(frame.project, frame.submission_date).ok
          \/ frame.alerts <= 0
       THEN /\ frame' =
                IF StepAfter("alerts_view") = "return"
                THEN Returned(frame, Some(TRUE))
                ELSE [frame EXCEPT !.at = StepAfter("alerts_view")]
            /\ UNCHANGED remote
       ELSE Execute("alerts_query", answer)
    /\ UNCHANGED <<mainVars, alertVars, projVars, callVars, runVars>>

NextMonitoringRun ==
    \/ RunStart
    \/ \E answer \in JobAnswers :
        \/ RunMetricsSql(answer)
        \/ RunExecute("metrics_view", answer)
        \/ RunExecute("statistics_query", answer)
        \/ RunExecute("statistics_view", answer)
        \/ RunSqlForAlerts(answer)
        \/ RunExecute("alerts_view", answer)

SpecMonitoringRun == InitMonitoringRun /\ [][NextMonitoringRun]_vars

\* s is an initial part of t.
IsPrefix(s, t) == Len(s) <= Len(t) /\ \A k \in 1..Len(s) : s[k] = t[k]

\* The project has no start date, or its end date is before the date.
NotRunnable ==
    \/ frame.project[1].start_date = None
    \/ /\ frame.project[1].end_date # None
       /\ Before(frame.project[1].end_date[1], frame.submission_date[1])

\* C29: run executes no query and returns True when the project's skip
\* flag is set, and no query when the project is not runnable; otherwise
\* the queries it issues are, in this order, the metrics query, the metrics
\* view, the statistics query, the statistics view and, only with at least
\* one alert configured, the alerts query and the alerts view.
C29_RunOrder ==
    frame.project # None =>
        LET skip == frame.project[1].skip
            tables == <<"metrics_query", "metrics_view",
                        "statistics_query", "statistics_view">>
            alerts == <<"alerts_query", "alerts_view">>
        IN  /\ skip =>
                /\ remote.queries = <<>>
                /\ frame.at # "run" =>
                      frame.at = "returned" /\ frame.result = Some(TRUE)
            /\ NotRunnable => remote.queries = <<>>
            /\ IsPrefix(remote.queries, tables \o alerts)
            /\ frame.alerts = 0 => IsPrefix(remote.queries, tables)
            /\ (frame.at = "returned" /\ ~skip /\ ~NotRunnable) =>
                  remote.queries =
                    (IF frame.alerts > 0 THEN tables \o alerts ELSE tables)

\* A runnable project with an alert: run has issued the six queries and
\* returned True.
C29_Witness ==
    /\ frame # <<>> /\ "alerts" \in DOMAIN frame
    /\ frame.alerts > 0
    /\ frame.at = "returned" /\ frame.result = Some(TRUE)
    /\ Len(remote.queries) = 6

\* A project without alerts: run returned after the statistics view.
C29_WitnessNoAlerts ==
    /\ frame # <<>> /\ "alerts" \in DOMAIN frame
    /\ frame.alerts = 0
    /\ frame.at = "returned"
    /\ Len(remote.queries) = 4

----------------------------------------------------------------------------
(* Specification of Monitoring._get_metrics_sql: the metrics of the       *)
(* configuration grouped by data source and rendered in chunks            *)

MAX_DIMENSIONS_PER_METRIC_QUERY == 40

\* The largest number of distinct metrics of a configuration.
MaxMetrics == 81

\* How the metrics are spread over data sources: all in one, the first
\* half in one and the rest in another, or alternating between two.
SourcePatterns == {"one", "halves", "alternate"}

\* The k-th of n metrics.
ConfigMetric(k, n, pattern) ==
    [name |-> k,
     data_source |->
        CASE pattern = "one" -> "a"
          [] pattern = "halves" -> IF 2 * k <= n THEN "a" ELSE "b"
          [] pattern = "alternate" -> IF k % 2 = 1 THEN "a" ELSE "b"]

\* config.metrics: one Summary per metric and statistic, the statistics
\* being listed one after the other.
ConfigSummaries(n, pattern, statistics) ==
    [i \in 1..(n * Len(statistics)) |->
        [metric |-> ConfigMetric(((i - 1) % n) + 1, n, pattern),
         statistic |-> statistics[((i - 1) \div n) + 1]]]

\* A chunk never counts as full.
ChunkNeverFull(i) == FALSE

\* `if i <= 0`: the chunk holds MAX_DIMENSIONS_PER_METRIC_QUERY metrics.
ChunkFull(i) == i <= 0

\* self._render_sql(METRIC_QUERY_FILENAME, {"metrics_per_dataset": chunk, ...}).
RenderMetricQuery(chunk) ==
    [template |-> "metric_query.sql", metrics_per_dataset |-> chunk]

\* A dict of lists with metric added under its data source: the key is
\* created with the list [metric], or the metric appended to its list.
ChunkAdd(chunk, metric) ==
    IF metric.data_source \in DOMAIN chunk
    THEN [chunk EXCEPT ![metric.data_source] = Append(@, metric)]
    ELSE [ds \in DOMAIN chunk \cup {metric.data_source} |->
            IF ds \in DOMAIN chunk THEN chunk[ds] ELSE <<metric>>]

\* The locals of _get_metrics_sql: metrics_per_dataset with the order of
\* its keys, the positions of the two loops, i, metrics_chunk and sql.
InitMetricsSql ==
    /\ \E n \in 0..MaxMetrics, pattern \in SourcePatterns,
          statistics \in {<<"sum">>, <<"sum", "mean">>} :
        frame = [metrics |-> ConfigSummaries(n, pattern, statistics),
                 at |-> "group", k |-> 1,
                 sources |-> <<>>, metrics_per_dataset |-> EmptyDict,
                 d |-> 1, j |-> 1,
                 i |-> MAX_DIMENSIONS_PER_METRIC_QUERY,
                 metrics_chunk |-> EmptyDict, sql |-> <<>>, list |-> FALSE]
    /\ remote = <<>>
    /\ MainIdleState /\ AlertIdleState /\ ProjIdleState
    /\ CallIdleState /\ RunIdleState

\* One turn of the loop that groups the metrics by data source: the metric
\* of the Summary is added to the list of its data source unless the list
\* holds it.
GroupMetric ==
    /\ frame.at = "group"
    /\ frame.k <= Len(frame.metrics)
    /\ LET metric == frame.metrics[frame.k].metric
           ds == metric.data_source
           known == ds \in DOMAIN frame.metrics_per_dataset
       IN  frame' =
            [frame EXCEPT
                !.k = @ + 1,
                !.sources = IF known THEN @ ELSE Append(@, ds),
                !.metrics_per_dataset =
                    IF known /\ metric \in Range(@[ds]) THEN @
                    ELSE ChunkAdd(@, metric)]
    /\ UNCHANGED <<remote, mainVars, alertVars, projVars, callVars, runVars>>

\* The grouping is done; the chunking loop starts with i at its maximum.
StartChunks ==
    /\ frame.at = "group"
    /\ frame.k > Len(frame.metrics)
    /\ frame' = [frame EXCEPT !.at = "chunk"]
    /\ UNCHANGED <<remote, mainVars, alertVars, projVars, callVars, runVars>>

\* One turn of the chunking loop, for metric j of data source d: a full
\* chunk is rendered and a new one begun; the metric joins the chunk.
ChunkMetric ==
    /\ frame.at = "chunk"
    /\ frame.d <= Len(frame.sources)
    /\ LET metrics == frame.metrics_per_dataset[frame.sources[frame.d]]
           full == ChunkFull(frame.i)
           chunk == IF full THEN EmptyDict ELSE frame.metrics_chunk
           i == IF full THEN MAX_DIMENSIONS_PER_METRIC_QUERY ELSE frame.i
       IN  frame' =
            [frame EXCEPT
                !.sql = IF full
                        THEN Append(@, RenderMetricQuery(frame.metrics_chunk))
                        ELSE @,
                !.metrics_chunk = ChunkAdd(chunk, metrics[frame.j]),
                !.i = i - 1,
                !.j = IF frame.j < Len(metrics) THEN @ + 1 ELSE 1,
                !.d = IF frame.j < Len(metrics) THEN @ ELSE @ + 1]
    /\ UNCHANGED <<remote, mainVars, alertVars, projVars, callVars, runVars>>

\* After the loop: the last chunk is rendered; one query is returned as a
\* string, several as the list.
ReturnSql ==
    /\ frame.at = "chunk"
    /\ frame.d > Len(frame.sources)
    /\ LET sql == Append(frame.sql, RenderMetricQuery(frame.metrics_chunk))
       IN  frame' = [frame EXCEPT !.at = "returned", !.sql = sql,
                                  !.list = (Len(sql) # 1)]
    /\ UNCHANGED <<remote, mainVars, alertVars, projVars, callVars, runVars>>

NextMetricsSql == GroupMetric \/ StartChunks \/ ChunkMetric \/ ReturnSql

SpecMetricsSql == InitMetricsSql /\ [][NextMetricsSql]_vars

\* The metrics rendered into query q, over all its data sources.
QueryMetrics(q) ==
    UNION {Range(q.metrics_per_dataset[ds]) : ds \in DOMAIN q.metrics_per_dataset}

\* The number of metrics rendered into query q, repeats counted.
QuerySize(q) ==
    LET ds == DOMAIN q.metrics_per_dataset
        Sum[S \in SUBSET ds] ==
            IF S = {} THEN 0
            ELSE LET x == CHOOSE y \in S : TRUE
                 IN  Len(q.metrics_per_dataset[x]) + Sum[S \ {x}]
    IN  Sum[ds]

\* C30: every distinct metric of the configuration is rendered into
\* exactly one query of _get_metrics_sql, once; no query holds more than
\* MAX_DIMENSIONS_PER_METRIC_QUERY metrics; a query is empty only when
\* there are no metrics at all; and the result is a string when there is
\* one query and a list otherwise.
C30_MetricChunks ==
    frame.at = "returned" =>
        LET sql == frame.sql
            distinct == {frame.metrics[i].metric : i \in 1..Len(frame.metrics)}
        IN  /\ \A m \in distinct :
                Cardinality({q \in 1..Len(sql) : m \in QueryMetrics(sql[q])}) = 1
            /\ \A q \in 1..Len(sql) :
                /\ QueryMetrics(sql[q]) \subseteq distinct
                /\ QuerySize(sql[q]) = Cardinality(QueryMetrics(sql[q]))
                /\ QuerySize(sql[q]) <= MAX_DIMENSIONS_PER_METRIC_QUERY
                /\ QuerySize(sql[q]) = 0 => distinct = {}
            /\ Len(sql) >= 1
            /\ frame.list <=> Len(sql) # 1

\* Twice MAX_DIMENSIONS_PER_METRIC_QUERY metrics and one more, each with two
\* summaries, over two data sources: three queries, the second with metrics
\* of both data sources, the last with one metric.
C30_Witness ==
    /\ frame # <<>> /\ "sql" \in DOMAIN frame
    /\ frame.at = "returned"
    /\ frame.list
    /\ Len(frame.metrics) = 2 * (2 * MAX_DIMENSIONS_PER_METRIC_QUERY + 1)
    /\ Len(frame.sql) = 3
    /\ QuerySize(frame.sql[3]) = 1
    /\ DOMAIN frame.sql[2].metrics_per_dataset = {"a", "b"}

\* No metrics: one query, rendered from an empty chunk, as a string.
C30_WitnessEmpty ==
    /\ frame # <<>> /\ "sql" \in DOMAIN frame
    /\ frame.at = "returned"
    /\ ~frame.list
    /\ frame.metrics = <<>>
    /\ QuerySize(frame.sql[1]) = 0

============================================================================
